---- MODULE Spec2Model ----
(***************************************************************************)
(* A model of the n8n Arweave node: the helper functions of                *)
(* nodes/Arweave/utils/helpers.ts and the gateway transport of             *)
(* nodes/Arweave/transport/arweaveClient.ts.                               *)
(*                                                                         *)
(* A JavaScript string is a sequence of UTF-16 code units (naturals).      *)
(* A call's outcome is a record [st, val]: st = "ok" with the returned     *)
(* value, st = "throw" with the thrown error, st = "pending" while the     *)
(* call has not been made.                                                 *)
(***************************************************************************)
EXTENDS Integers, Sequences, FiniteSets, TLC

VARIABLES
    cIn,      \* codec: the text handed to stringToBase64Url
    cEnc,     \* codec: outcome of stringToBase64Url(cIn)
    cDec,     \* codec: outcome of base64UrlToString(cEnc.val)
    tIn,      \* tags: the plain tag list handed to encodeTags
    tEnc,     \* tags: outcome of encodeTags(tIn)
    tDec,     \* tags: outcome of decodeTags(tEnc.val)
    uIn,      \* units: the Winston string handed to winstonToAR
    uAr,      \* units: outcome of winstonToAR(uIn)
    uBack,    \* units: outcome of arToWinston(uAr.val)
    aIn,      \* units: the AR string handed to arToWinston
    aOut,     \* units: outcome of arToWinston(aIn)
    vIn,      \* validator: the value handed to isValidTransactionId
    vOut,     \* validator: outcome of isValidTransactionId(vIn)
    store,    \* transport: what the host's credential store resolves to
    licenseNoticeLogged,  \* transport: the module flag of logLicenseNotice
    warnings, \* transport: number of console.warn calls so far
    calls,    \* transport: number of transport calls started
    call,     \* transport: the call in progress, [fn, args]
    pc,       \* transport: where the call in progress stands
    config,   \* transport: the credentials resolved for the call
    requests, \* transport: the options of each httpRequest of the call
    httpOutcome,  \* transport: how the HTTP client settled the request
    result,   \* transport: outcome of the call
    xAr,  \* utility: outcome of the utility operation winstonToAR on uIn
    xWinston, \* utility: outcome of the utility operation arToWinston on aIn
    nodeClass,  \* exec: which Arweave class runs: "actions" or "handlers"
    inputData,  \* exec: the input items, each the parameters of one item
    continueOnFail,  \* exec: the Continue on Fail setting
    itemIndex,  \* exec: the loop index, from 0
    returnData,  \* exec: the output records so far
    issued,  \* exec: the gateway requests issued, each with the item it was for
    causes,  \* exec: for each item processed, Ok or the first error raised for it
    xpc,  \* exec: "idle", "item", "await" or "done"
    execution,  \* exec: Pending, Ok(output) or Throw(error)
    executions, \* exec: how many executions have started
    upload, \* upload: the upload operation run on tIn: [op, body, sent]
    batch, \* batch: the batch pricing operation: [op, entries, sizes, log, prices, total, pc, result]
    triggerNoticeLogged,  \* trigger: the module flag of logLicenseNotice in ArweaveTrigger.node.ts
    triggerParams,  \* trigger: the parameters of the trigger node
    webhookData,  \* trigger: the static data of the trigger node: [lastProcessedId, lastHeight]
    trigger,  \* trigger: the poll in progress: [pc, step, cfg, sent, current, hash, h, returnData, result]
    polls, \* trigger: how many polls have started
    gateway, \* trigger: "any" (the gateway answers anything) or "feed" (it serves chain)
    chain, \* trigger: the transactions at the gateway, newest first, each [edge, born]
    emissions, \* trigger: what the polls so far emitted: [emitted, repeated, lastGood, base]
    fIn,  \* format: the Number handed to formatFileSize
    fOut, \* format: outcome of formatFileSize(fIn)
    blockTransactions, \* blocks: the getBlockTransactions operation: [params, pc, sent, txIds, limitedTxIds, details, result]
    retry,  \* retry: retryWithBackoff in progress: [maxRetries, baseDelay, attempt, lastError, pc, log, result]
    fnTrace, \* retry: how fn settled at each of its calls so far
    chunking  \* chunk: chunkArray in progress: [array, chunkSize, i, chunks, pc, iterations, beyond]

vars == <<cIn, cEnc, cDec, tIn, tEnc, tDec, uIn, uAr, uBack, aIn, aOut,
          vIn, vOut, store, licenseNoticeLogged, warnings, calls, call, pc,
          config, requests, httpOutcome, result,
          xAr, xWinston,
          nodeClass, inputData, continueOnFail, itemIndex, returnData, issued, causes, xpc, execution, executions,
          upload,
          batch,
          triggerNoticeLogged, triggerParams, webhookData, trigger, polls,
          gateway, chain, emissions,
          fIn, fOut,
          blockTransactions,
          retry, fnTrace,
          chunking>>

Ok(v) == [st |-> "ok", val |-> v]
Throw(e) == [st |-> "throw", val |-> e]
Pending == [st |-> "pending", val |-> <<>>]

(***************************************************************************)
(* Bounds of the codec inputs.                                             *)
(***************************************************************************)
MaxTextLen == 3
MaxTags == 2
MaxWinstonFraction == 127
MaxFractionLen == 2
MaxLengthDelta == 1
MaxCalls == 2
MaxErrors == 2
MaxAmountLen == 3
MaxEncodedLen == 3
MaxItems == 2
MaxExecutions == 2
MaxBatch == 2
MaxPolls == 2
MaxLimit == 2
MaxEdges == 2
MaxChain == 3
MaxMantissa == 1100
MaxUnit == 4
MaxTxs == 3
MaxRetries == 3
MaxArrayLen == 4

(***************************************************************************)
(* Characters.                                                             *)
(***************************************************************************)
ChPlus == 43
ChMinus == 45
ChDot == 46
ChSlash == 47
ChEquals == 61
ChUnderscore == 95

IsHighSurrogate(c) == c >= 55296 /\ c <= 56319
IsLowSurrogate(c) == c >= 56320 /\ c <= 57343

\* CryptoJS.enc.Base64._map: 'A'-'Z', 'a'-'z', '0'-'9', '+', '/', '='
Base64Map ==
    [i \in 0..64 |->
        IF i < 26 THEN 65 + i
        ELSE IF i < 52 THEN 97 + (i - 26)
        ELSE IF i < 62 THEN 48 + (i - 52)
        ELSE IF i = 62 THEN ChPlus
        ELSE IF i = 63 THEN ChSlash
        ELSE ChEquals]

\* CryptoJS.enc.Base64._reverseMap[charCode]; a character outside the map
\* gives undefined, which the shifts of parseLoop turn into 0.
ReverseMap(c) ==
    IF \E j \in 0..64 : Base64Map[j] = c
    THEN CHOOSE j \in 0..64 : Base64Map[j] = c
    ELSE 0

(***************************************************************************)
(* String.prototype.replace(/x/g, y) for a one-character pattern: y is a   *)
(* string (the empty string deletes the character).                        *)
(***************************************************************************)
RECURSIVE ReplaceAllFrom(_, _, _, _)
ReplaceAllFrom(s, i, x, y) ==
    IF i > Len(s) THEN <<>>
    ELSE (IF s[i] = x THEN y ELSE <<s[i]>>) \o ReplaceAllFrom(s, i + 1, x, y)

ReplaceAll(s, x, y) == ReplaceAllFrom(s, 1, x, y)

\* while (base64.length % 4) base64 += '='
RECURSIVE PadToMultipleOf4(_)
PadToMultipleOf4(s) ==
    IF Len(s) % 4 = 0 THEN s ELSE PadToMultipleOf4(Append(s, ChEquals))

\* a slip: '_' is not turned back into '/'
base64UrlToBase64_KeepUnderscore(base64Url) ==
    PadToMultipleOf4(ReplaceAll(base64Url, ChMinus, <<ChPlus>>))

base64UrlToBase64(base64Url) ==
    PadToMultipleOf4(
        ReplaceAll(ReplaceAll(base64Url, ChMinus, <<ChPlus>>),
                   ChUnderscore, <<ChSlash>>))

\* a slip: the '=' padding is left in place
base64ToBase64Url_KeepPadding(base64) ==
    ReplaceAll(ReplaceAll(base64, ChPlus, <<ChMinus>>),
               ChSlash, <<ChUnderscore>>)

base64ToBase64Url(base64) ==
    ReplaceAll(
        ReplaceAll(ReplaceAll(base64, ChPlus, <<ChMinus>>),
                   ChSlash, <<ChUnderscore>>),
        ChEquals, <<>>)

(***************************************************************************)
(* CryptoJS.enc.Utf8.parse(str) = Latin1.parse(unescape(                   *)
(* encodeURIComponent(str))): the UTF-8 octets of the code points of str,  *)
(* a surrogate pair being one code point.  encodeURIComponent throws a     *)
(* URIError on an unpaired surrogate.  The word array is kept as its       *)
(* sequence of significant bytes.                                          *)
(***************************************************************************)
Utf8Octets(v) ==
    IF v < 128 THEN <<v>>
    ELSE IF v < 2048 THEN <<192 + (v \div 64), 128 + (v % 64)>>
    ELSE IF v < 65536 THEN
        <<224 + (v \div 4096), 128 + ((v \div 64) % 64), 128 + (v % 64)>>
    ELSE <<240 + (v \div 262144), 128 + ((v \div 4096) % 64),
           128 + ((v \div 64) % 64), 128 + (v % 64)>>

RECURSIVE Utf8ParseFrom(_, _, _)
Utf8ParseFrom(str, k, acc) ==
    IF k > Len(str) THEN Ok(acc)
    ELSE IF IsLowSurrogate(str[k]) THEN Throw("URIError")
    ELSE IF ~IsHighSurrogate(str[k])
        THEN Utf8ParseFrom(str, k + 1, acc \o Utf8Octets(str[k]))
    ELSE IF k + 1 > Len(str) THEN Throw("URIError")
    ELSE IF ~IsLowSurrogate(str[k + 1]) THEN Throw("URIError")
    ELSE Utf8ParseFrom(str, k + 2,
            acc \o Utf8Octets(((str[k] - 55296) * 1024)
                              + (str[k + 1] - 56320) + 65536))

Utf8Parse(str) == Utf8ParseFrom(str, 1, <<>>)

(***************************************************************************)
(* CryptoJS.enc.Base64.stringify(wordArray): for every group of three      *)
(* bytes (missing ones read as 0) the 24-bit triplet gives four 6-bit      *)
(* characters, of which those with i + j * 0.75 < sigBytes are pushed;     *)
(* then '=' is pushed while the length is no multiple of 4.                *)
(***************************************************************************)
ByteAt(bytes, i) == IF i + 1 <= Len(bytes) THEN bytes[i + 1] ELSE 0

TripletChars(bytes, i) ==
    LET triplet == (ByteAt(bytes, i) * 65536) + (ByteAt(bytes, i + 1) * 256)
                   + ByteAt(bytes, i + 2)
        ch(j) == Base64Map[(triplet \div (2 ^ (6 * (3 - j)))) % 64]
        \* i + j * 0.75 < sigBytes  <=>  4 * i + 3 * j < 4 * sigBytes
        keep(j) == (4 * i) + (3 * j) < 4 * Len(bytes)
    IN  (IF keep(0) THEN <<ch(0)>> ELSE <<>>)
        \o (IF keep(1) THEN <<ch(1)>> ELSE <<>>)
        \o (IF keep(2) THEN <<ch(2)>> ELSE <<>>)
        \o (IF keep(3) THEN <<ch(3)>> ELSE <<>>)

RECURSIVE Base64CharsFrom(_, _)
Base64CharsFrom(bytes, i) ==
    IF i >= Len(bytes) THEN <<>>
    ELSE TripletChars(bytes, i) \o Base64CharsFrom(bytes, i + 3)

Base64Stringify(bytes) == PadToMultipleOf4(Base64CharsFrom(bytes, 0))

(***************************************************************************)
(* CryptoJS.enc.Base64.parse(base64Str): the string is cut at its first    *)
(* '='; then every character at an index i with i % 4 # 0 yields one byte  *)
(* from the characters i - 1 and i.  (bits1 | bits2 can be wider than 8    *)
(* bits; the excess bits repeat the low bits of the byte before, or fall   *)
(* off the 32-bit word, so the byte is the low 8 bits.)                    *)
(***************************************************************************)
IndexOf(s, c) ==
    IF \E i \in 1..Len(s) : s[i] = c
    THEN (CHOOSE i \in 1..Len(s) : s[i] = c /\ \A j \in 1..(i - 1) : s[j] # c) - 1
    ELSE -1

ParseByte(base64Str, i) ==
    LET r == i % 4
        bits1 == (ReverseMap(base64Str[i]) * (2 ^ (2 * r))) % 256
        bits2 == ReverseMap(base64Str[i + 1]) \div (2 ^ (6 - (2 * r)))
    IN  \* bits1 has its low 2r bits clear and bits2 < 2^(2r): | is +
        bits1 + bits2

RECURSIVE ParseLoop(_, _, _)
ParseLoop(base64Str, base64StrLength, i) ==
    IF i >= base64StrLength THEN <<>>
    ELSE (IF i % 4 # 0 THEN <<ParseByte(base64Str, i)>> ELSE <<>>)
         \o ParseLoop(base64Str, base64StrLength, i + 1)

Base64Parse(base64Str) ==
    LET paddingIndex == IndexOf(base64Str, Base64Map[64])
        base64StrLength == IF paddingIndex # -1 THEN paddingIndex
                           ELSE Len(base64Str)
    IN  ParseLoop(base64Str, base64StrLength, 0)

(***************************************************************************)
(* CryptoJS.enc.Utf8.stringify(wordArray) = decodeURIComponent(escape(     *)
(* Latin1.stringify(wordArray))), any failure rethrown as                  *)
(* Error('Malformed UTF-8 data').  decodeURIComponent accepts exactly the  *)
(* well-formed UTF-8 encodings of code points: no stray or missing         *)
(* continuation byte, no overlong form, no surrogate, nothing above        *)
(* U+10FFFF.  A code point above U+FFFF becomes a surrogate pair.          *)
(***************************************************************************)
IsContinuation(b) == b >= 128 /\ b <= 191

Utf8SeqLen(b) ==
    IF b < 128 THEN 1
    ELSE IF b >= 192 /\ b <= 223 THEN 2
    ELSE IF b >= 224 /\ b <= 239 THEN 3
    ELSE IF b >= 240 /\ b <= 247 THEN 4
    ELSE 0

Utf8CodePoint(bytes, k, n) ==
    IF n = 1 THEN bytes[k]
    ELSE IF n = 2 THEN ((bytes[k] - 192) * 64) + (bytes[k + 1] - 128)
    ELSE IF n = 3 THEN ((bytes[k] - 224) * 4096) + ((bytes[k + 1] - 128) * 64)
                       + (bytes[k + 2] - 128)
    ELSE ((bytes[k] - 240) * 262144) + ((bytes[k + 1] - 128) * 4096)
         + ((bytes[k + 2] - 128) * 64) + (bytes[k + 3] - 128)

Utf8MinCodePoint(n) ==
    IF n = 1 THEN 0 ELSE IF n = 2 THEN 128 ELSE IF n = 3 THEN 2048 ELSE 65536

CodeUnits(v) ==
    IF v < 65536 THEN <<v>>
    ELSE <<55296 + ((v - 65536) \div 1024), 56320 + ((v - 65536) % 1024)>>

RECURSIVE Utf8StringifyFrom(_, _, _)
Utf8StringifyFrom(bytes, k, acc) ==
    IF k > Len(bytes) THEN Ok(acc)
    ELSE
        LET n == Utf8SeqLen(bytes[k])
        IN  IF n = 0 \/ k + n - 1 > Len(bytes)
                THEN Throw("Malformed UTF-8 data")
            ELSE IF \E j \in 1..(n - 1) : ~IsContinuation(bytes[k + j])
                THEN Throw("Malformed UTF-8 data")
            ELSE
                LET v == Utf8CodePoint(bytes, k, n)
                IN  IF v < Utf8MinCodePoint(n) \/ v > 1114111
                       \/ (v >= 55296 /\ v <= 57343)
                        THEN Throw("Malformed UTF-8 data")
                    ELSE Utf8StringifyFrom(bytes, k + n, acc \o CodeUnits(v))

Utf8Stringify(bytes) == Utf8StringifyFrom(bytes, 1, <<>>)

(***************************************************************************)
(* helpers.ts: stringToBase64Url (alias encodeBase64Url) and               *)
(* base64UrlToString (alias decodeBase64Url).                              *)
(***************************************************************************)
stringToBase64Url(str) ==
    LET wordArray == Utf8Parse(str)
    IN  IF wordArray.st # "ok" THEN wordArray
        ELSE Ok(base64ToBase64Url(Base64Stringify(wordArray.val)))

base64UrlToString(base64Url) ==
    LET base64 == base64UrlToBase64(base64Url)
        wordArray == Base64Parse(base64)
    IN  Utf8Stringify(wordArray)

(***************************************************************************)
(* helpers.ts: encodeTags / decodeTags: Array.prototype.map over the tags. *)
(* A throwing callback makes the whole map throw.                          *)
(***************************************************************************)
\* tags.map((tag) => ({ name: ..., value: ... })) with stringToBase64Url
RECURSIVE encodeTagsFrom(_, _, _)
encodeTagsFrom(tags, i, acc) ==
    IF i > Len(tags) THEN Ok(acc)
    ELSE
        LET name == stringToBase64Url(tags[i].name)
            value == stringToBase64Url(tags[i].value)
        IN  IF name.st # "ok" THEN name
            ELSE IF value.st # "ok" THEN value
            ELSE encodeTagsFrom(tags, i + 1,
                    Append(acc, [name |-> name.val, value |-> value.val]))

encodeTags(tags) == encodeTagsFrom(tags, 1, <<>>)

\* tags.map((tag) => ({ name: ..., value: ... })) with base64UrlToString
RECURSIVE decodeTagsFrom(_, _, _)
decodeTagsFrom(tags, i, acc) ==
    IF i > Len(tags) THEN Ok(acc)
    ELSE
        LET name == base64UrlToString(tags[i].name)
            value == base64UrlToString(tags[i].value)
        IN  IF name.st # "ok" THEN name
            ELSE IF value.st # "ok" THEN value
            ELSE decodeTagsFrom(tags, i + 1,
                    Append(acc, [name |-> name.val, value |-> value.val]))

\* a slip: the decoded tags come out in reverse order
RECURSIVE ReverseSeq(_)
ReverseSeq(q) == IF q = <<>> THEN <<>> ELSE Append(ReverseSeq(Tail(q)), Head(q))

decodeTags_Reversed(tags) == decodeTagsFrom(ReverseSeq(tags), 1, <<>>)

decodeTags(tags) == decodeTagsFrom(tags, 1, <<>>)

(***************************************************************************)
(* Arbitrary-precision naturals (BigInt magnitudes, and the exact          *)
(* intermediate values of IEEE-754 double arithmetic): a sequence of limbs *)
(* in base 2^15, least significant first, without high zero limbs; <<>>    *)
(* is zero.                                                                *)
(***************************************************************************)
LimbBase == 2 ^ 15

RECURSIVE BitLen(_)
BitLen(n) == IF n = 0 THEN 0 ELSE 1 + BitLen(n \div 2)

LimbBits == BitLen(LimbBase) - 1

RECURSIVE BigTrim(_)
BigTrim(a) ==
    IF a = <<>> THEN <<>>
    ELSE IF a[Len(a)] = 0 THEN BigTrim(SubSeq(a, 1, Len(a) - 1))
    ELSE a

\* a * k + c, for 1 <= k <= LimbBase and 0 <= c < LimbBase
RECURSIVE BigMulAddFrom(_, _, _, _)
BigMulAddFrom(a, k, carry, i) ==
    IF i > Len(a) THEN (IF carry = 0 THEN <<>> ELSE <<carry>>)
    ELSE LET t == (a[i] * k) + carry
         IN  <<t % LimbBase>> \o BigMulAddFrom(a, k, t \div LimbBase, i + 1)

BigMulAdd(a, k, c) == BigMulAddFrom(a, k, c, 1)

\* quotient and remainder of a by k, for 1 <= k <= LimbBase
RECURSIVE BigDivModFrom(_, _, _, _)
BigDivModFrom(a, k, i, rem) ==
    IF i = 0 THEN [q |-> <<>>, r |-> rem]
    ELSE LET t == (rem * LimbBase) + a[i]
             rest == BigDivModFrom(a, k, i - 1, t % k)
         IN  [q |-> Append(rest.q, t \div k), r |-> rest.r]

BigDivMod(a, k) ==
    LET d == BigDivModFrom(a, k, Len(a), 0)
    IN  [q |-> BigTrim(d.q), r |-> d.r]

BigBitLen(a) ==
    IF a = <<>> THEN 0 ELSE (LimbBits * (Len(a) - 1)) + BitLen(a[Len(a)])

\* bit p (0 = least significant) of a
BigBit(a, p) ==
    LET i == (p \div LimbBits) + 1
    IN  IF i > Len(a) THEN 0 ELSE (a[i] \div (2 ^ (p % LimbBits))) % 2

\* whether the bits of a below bit p are all zero
BigLowBitsZero(a, p) ==
    \A j \in 0..(p - 1) : BigBit(a, j) = 0

\* a * 2^sh
BigShl(a, sh) ==
    IF a = <<>> THEN <<>>
    ELSE [i \in 1..(sh \div LimbBits) |-> 0]
         \o BigMulAdd(a, 2 ^ (sh % LimbBits), 0)

\* floor(a / 2^sh)
BigShr(a, sh) ==
    IF sh \div LimbBits >= Len(a) THEN <<>>
    ELSE BigDivMod(SubSeq(a, (sh \div LimbBits) + 1, Len(a)),
                   2 ^ (sh % LimbBits)).q

BigInc(a) == BigMulAdd(a, 1, 1)

\* a * 5^d, by factors of at most 5^6 (below LimbBase)
RECURSIVE BigMulPow5(_, _)
BigMulPow5(a, d) ==
    IF d = 0 THEN a
    ELSE LET step == IF d >= 6 THEN 6 ELSE d
             next == BigMulAdd(a, 5 ^ step, 0)
         IN  IF Len(next) >= 0 THEN BigMulPow5(next, d - step) ELSE <<>>

\* floor(a / 5^d), and whether the division left a remainder
RECURSIVE BigDivPow5(_, _, _)
BigDivPow5(a, d, inexact) ==
    IF d = 0 THEN [q |-> a, inexact |-> inexact]
    ELSE LET step == IF d >= 6 THEN 6 ELSE d
             dm == BigDivMod(a, 5 ^ step)
         IN  IF dm.r = 0 THEN BigDivPow5(dm.q, d - step, inexact)
             ELSE BigDivPow5(dm.q, d - step, TRUE)

(***************************************************************************)
(* Decimal digit strings.                                                  *)
(***************************************************************************)
Ch0 == 48
Ch9 == 57

IsDigit(c) == c >= Ch0 /\ c <= Ch9

\* the value of the n <= 4 digits of str from position i on
DigitsValue(str, i, n) ==
    LET d(j) == IF j < n THEN str[i + j] - Ch0 ELSE 0
    IN  IF n = 0 THEN 0
        ELSE IF n = 1 THEN d(0)
        ELSE IF n = 2 THEN (10 * d(0)) + d(1)
        ELSE IF n = 3 THEN (100 * d(0)) + (10 * d(1)) + d(2)
        ELSE (1000 * d(0)) + (100 * d(1)) + (10 * d(2)) + d(3)

\* Horner's rule, four digits at a time
RECURSIVE BigFromDigitsFrom(_, _, _)
BigFromDigitsFrom(str, i, acc) ==
    IF i > Len(str) THEN acc
    ELSE LET next == BigMulAdd(acc, 10000, DigitsValue(str, i, 4))
         IN  IF Len(next) >= 0 THEN BigFromDigitsFrom(str, i + 4, next)
             ELSE <<>>

\* the natural written by a string of decimal digits
BigFromDigits(str) ==
    LET first == Len(str) % 4
        head == DigitsValue(str, 1, first)
    IN  BigFromDigitsFrom(str, first + 1, IF head = 0 THEN <<>> ELSE <<head>>)

FourDigits(n) ==
    <<Ch0 + (n \div 1000), Ch0 + ((n \div 100) % 10),
      Ch0 + ((n \div 10) % 10), Ch0 + (n % 10)>>

RECURSIVE BigToDigitsAcc(_, _)
BigToDigitsAcc(a, acc) ==
    IF a = <<>> THEN acc
    ELSE LET dm == BigDivMod(a, 10000)
             next == FourDigits(dm.r) \o acc
         IN  IF Len(next) >= 0 THEN BigToDigitsAcc(dm.q, next) ELSE <<>>

RECURSIVE DropLeadingZeros(_, _)
\* str from the first non-zero digit at or after position i (at least its
\* last digit)
DropLeadingZeros(str, i) ==
    IF i < Len(str) /\ str[i] = Ch0 THEN DropLeadingZeros(str, i + 1)
    ELSE SubSeq(str, i, Len(str))

\* the decimal digits of a, without leading zeros; "0" for zero
BigToDigits(a) ==
    IF a = <<>> THEN <<Ch0>>
    ELSE DropLeadingZeros(BigToDigitsAcc(a, <<>>), 1)

(***************************************************************************)
(* JavaScript Numbers: IEEE-754 binary64.  A finite Number is              *)
(* (-1)^neg * m * 2^e with m a natural below 2^53 (m and e need not be     *)
(* normalised); NaN is the only other value the conversions meet.  The     *)
(* inputs keep every value between 2^-1022 and 2^1023 in magnitude, or     *)
(* zero, so subnormals and overflow do not arise.                          *)
(***************************************************************************)
MantissaBits == 53

Num(neg, m, e) == [nan |-> FALSE, neg |-> neg, m |-> m, e |-> e]
NaN == [nan |-> TRUE, neg |-> FALSE, m |-> <<>>, e |-> 0]

\* the Number nearest to (-1)^neg * (n + f) * 2^e, ties to even, where f is
\* 0, or some fraction in (0, 1) when inexact (then n has more than
\* MantissaBits + 1 bits)
RoundToDouble(neg, n, e, inexact) ==
    LET len == BigBitLen(n)
        d == len - MantissaBits
    IN  IF d <= 0 THEN Num(neg, n, e)
        ELSE LET m0 == BigShr(n, d)
                 half == BigBit(n, d - 1) = 1
                 sticky == inexact \/ ~BigLowBitsZero(n, d - 1)
                 up == half /\ (sticky \/ BigBit(m0, 0) = 1)
             IN  Num(neg, IF up THEN BigInc(m0) ELSE m0, e + d)

\* a left shift of the non-zero natural m after which its quotient by 5^d
\* (which is below 2^(3d)) has more than MantissaBits + 1 bits
GuardShift(m, d) ==
    LET want == (MantissaBits + 3 + (3 * d)) - BigBitLen(m)
    IN  IF want > 0 THEN want ELSE 0

(***************************************************************************)
(* BigInt(string) (StringToBigInt): an optional '-' and decimal digits;    *)
(* the empty string is 0n; anything else throws a SyntaxError.  The value  *)
(* is [neg, mag].                                                          *)
(***************************************************************************)
StringToBigInt(str) ==
    LET neg == Len(str) > 1 /\ str[1] = ChMinus
        digits == IF neg THEN Tail(str) ELSE str
    IN  IF \A i \in 1..Len(digits) : IsDigit(digits[i])
            THEN LET mag == BigFromDigits(digits)
                 IN  Ok([neg |-> neg /\ mag # <<>>, mag |-> mag])
        ELSE Throw("SyntaxError")

\* BigInt.prototype.toString()
BigIntToString(b) ==
    (IF b.neg THEN <<ChMinus>> ELSE <<>>) \o BigToDigits(b.mag)

\* Number(bigint): the nearest Number
BigIntToNumber(b) == RoundToDouble(b.neg, b.mag, 0, FALSE)

(***************************************************************************)
(* x / Number(10^d) and x * Number(10^d) in IEEE-754 arithmetic: the exact *)
(* quotient or product, rounded to nearest-even.  10^d = 5^d * 2^d is      *)
(* itself a Number for d <= 22.                                            *)
(***************************************************************************)
NumberDivPow10(x, d) ==
    IF x.nan THEN NaN
    ELSE IF x.m = <<>> THEN x
    ELSE LET sh == GuardShift(x.m, d)
             dq == BigDivPow5(BigShl(x.m, sh), d, FALSE)
         IN  RoundToDouble(x.neg, dq.q, x.e - d - sh, dq.inexact)

NumberMulPow10(x, d) ==
    IF x.nan THEN NaN
    ELSE RoundToDouble(x.neg, BigMulPow5(x.m, d), x.e + d, FALSE)

(***************************************************************************)
(* Number.prototype.toFixed(f) for |x| < 10^21: n is the integer for which *)
(* n / 10^f - x is closest to zero, the larger one of two; the string is   *)
(* n's digits, left-padded with '0' to f + 1 digits, with '.' before the   *)
(* last f.  toFixed of NaN is 'NaN'.                                       *)
(***************************************************************************)
RECURSIVE PadStart(_, _, _)
PadStart(str, len, c) ==
    IF Len(str) >= len THEN str ELSE PadStart(<<c>> \o str, len, c)

NumberToFixed(x, f) ==
    IF x.nan THEN <<78, 97, 78>>
    ELSE LET scaled == BigMulPow5(x.m, f)          \* |x| * 10^f = scaled * 2^sh
             sh == x.e + f
             n == IF sh >= 0 THEN BigShl(scaled, sh)
                  ELSE IF BigBit(scaled, (-sh) - 1) = 1
                      THEN BigInc(BigShr(scaled, -sh))
                  ELSE BigShr(scaled, -sh)
             digits == PadStart(BigToDigits(n), f + 1, Ch0)
             k == Len(digits) - f
         IN  (IF x.neg /\ x.m # <<>> THEN <<ChMinus>> ELSE <<>>)
             \o SubSeq(digits, 1, k) \o <<ChDot>>
             \o SubSeq(digits, k + 1, Len(digits))

(***************************************************************************)
(* parseFloat(string): the longest prefix that is a decimal literal        *)
(* (optional '-', digits, optional '.' and digits), as the nearest Number; *)
(* NaN when there is no such prefix.  (Exponents, 'Infinity' and leading   *)
(* white space are not among the inputs.)                                  *)
(***************************************************************************)
RECURSIVE DigitRun(_, _)
\* the number of digits of str from position i on
DigitRun(str, i) ==
    IF i <= Len(str) /\ IsDigit(str[i]) THEN 1 + DigitRun(str, i + 1) ELSE 0

ParseFloat(str) ==
    LET neg == Len(str) >= 1 /\ str[1] = ChMinus
        start == IF neg THEN 2 ELSE 1
        intLen == DigitRun(str, start)
        dotAt == start + intLen
        hasDot == dotAt <= Len(str) /\ str[dotAt] = ChDot
        fracLen == IF hasDot THEN DigitRun(str, dotAt + 1) ELSE 0
        digits == SubSeq(str, start, dotAt - 1)
                  \o SubSeq(str, dotAt + 1, dotAt + fracLen)
        mag == BigFromDigits(digits)
    IN  IF intLen + fracLen = 0 THEN NaN
        ELSE IF mag = <<>> THEN Num(neg, <<>>, 0)
        ELSE LET sh == GuardShift(mag, fracLen)
                 dq == BigDivPow5(BigShl(mag, sh), fracLen, FALSE)
             IN  RoundToDouble(neg, dq.q, (-fracLen) - sh, dq.inexact)

(***************************************************************************)
(* Math.floor(x), and BigInt(number), which throws a RangeError unless the *)
(* Number is an integer.                                                   *)
(***************************************************************************)
MathFloor(x) ==
    IF x.nan THEN NaN
    ELSE IF x.e >= 0 THEN x
    ELSE LET down == BigShr(x.m, -x.e)
             exact == BigLowBitsZero(x.m, -x.e)
         IN  Num(x.neg, IF x.neg /\ ~exact THEN BigInc(down) ELSE down, 0)

NumberToBigInt(x) ==
    IF x.nan THEN Throw("RangeError")
    ELSE IF x.e < 0 /\ ~BigLowBitsZero(x.m, -x.e) THEN Throw("RangeError")
    ELSE LET mag == IF x.e >= 0 THEN BigShl(x.m, x.e) ELSE BigShr(x.m, -x.e)
         IN  Ok([neg |-> x.neg /\ mag # <<>>, mag |-> mag])

(***************************************************************************)
(* helpers.ts: winstonToAR (alias winstonToAr) and arToWinston.            *)
(* ARWEAVE_CONSTANTS.WINSTON_PER_AR is BigInt('1000000000000') = 10^12.    *)
(***************************************************************************)
WinstonPerArDigits == 12
ToFixedDigits == 12

winstonToAR(winston) ==
    LET winstonBigInt == StringToBigInt(winston)
    IN  IF winstonBigInt.st # "ok" THEN winstonBigInt
        ELSE LET ar == NumberDivPow10(BigIntToNumber(winstonBigInt.val),
                                      WinstonPerArDigits)
             IN  Ok(NumberToFixed(ar, ToFixedDigits))

arToWinston(ar) ==
    LET arNum == ParseFloat(ar)
        winston == NumberToBigInt(
                       MathFloor(NumberMulPow10(arNum, WinstonPerArDigits)))
    IN  IF winston.st # "ok" THEN winston
        ELSE Ok(BigIntToString(winston.val))

(***************************************************************************)
(* helpers.ts: isValidTransactionId (alias validateTransactionId).  A      *)
(* JavaScript value is [type, val]; null, undefined and the empty string   *)
(* are falsy.                                                              *)
(***************************************************************************)
TxIdLength == 43

JsString(str) == [type |-> "string", val |-> str]
JsNull == [type |-> "null"]
JsUndefined == [type |-> "undefined"]

JsNumber(num) == [type |-> "number", num |-> num]
JsObject(fields) == [type |-> "object", fields |-> fields]
JsArray(items) == [type |-> "array", items |-> items]
ArrayBuffer(bytes) == [type |-> "arraybuffer", bytes |-> bytes]
Buffer(bytes) == [type |-> "Buffer", bytes |-> bytes]

Truthy(v) ==
    /\ v.type \notin {"null", "undefined"}
    /\ v.type = "string" => Len(v.val) # 0
    /\ v.type = "number" => v.num # 0

\* the character class [A-Za-z0-9_-]
InBase64UrlClass(c) ==
    \/ c >= 65 /\ c <= 90
    \/ c >= 97 /\ c <= 122
    \/ c >= 48 /\ c <= 57
    \/ c = ChUnderscore
    \/ c = ChMinus

\* a slip: the pattern without its end anchor, /^[A-Za-z0-9_-]{43}/
Base64UrlRegexTest_NoEndAnchor(str) ==
    /\ Len(str) >= TxIdLength
    /\ \A i \in 1..TxIdLength : InBase64UrlClass(str[i])

\* /^[A-Za-z0-9_-]{43}$/.test(str): from the start of the input, exactly
\* TxIdLength characters of the class, then the end of the input ('$'
\* without the m flag matches nowhere else)
Base64UrlRegexTest(str) ==
    /\ Len(str) >= TxIdLength
    /\ \A i \in 1..TxIdLength : InBase64UrlClass(str[i])
    /\ Len(str) = TxIdLength

isValidTransactionId(txId) ==
    IF ~Truthy(txId) \/ txId.type # "string" THEN Ok(FALSE)
    ELSE Ok(Base64UrlRegexTest(txId.val))

(***************************************************************************)
(* The transport (types.ts 340-683).  Here a string is a TLA+ string; an   *)
(* undefined string option is "" and an undefined timeout is 0, which the  *)
(* code's `||` treats alike.  An error object is [name, message].          *)
(***************************************************************************)
DEFAULT_GATEWAY == "https://arweave.net"
DEFAULT_GRAPHQL == "https://arweave.net/graphql"
DEFAULT_TIMEOUT == 60000

JsError(name, message) == [name |-> name, message |-> message]

\* the n8n-workflow error types, as the repository's test setup defines them
NodeOperationError(message) == JsError("NodeOperationError", message)

NodeApiError(error) ==
    JsError("NodeApiError",
            IF error.message # "" THEN error.message ELSE "API Error")

\* the code's `a || b` on a string option and on a numeric option
StringOr(a, b) == IF a = "" THEN b ELSE a
NumberOr(a, b) == IF a = 0 THEN b ELSE a

\* a wallet string is [parses, syntaxError, kty, n, e]: whether JSON.parse
\* accepts it (and its SyntaxError message if not) and the three fields read
parseJwk(jwkString) ==
    IF ~jwkString.parses
    THEN Throw(JsError("Error", "Failed to parse JWK: " \o jwkString.syntaxError))
    ELSE IF jwkString.kty = "" \/ jwkString.n = "" \/ jwkString.e = ""
    THEN Throw(JsError("Error",
               "Failed to parse JWK: " \o "Invalid JWK: missing required fields"))
    ELSE Ok([kty |-> jwkString.kty, n |-> jwkString.n, e |-> jwkString.e])

\* the address is a digest of the public modulus; the digest is left abstract
deriveAddressFromJwk(jwk) == <<"SHA256", jwk.n>>

\* getCredentials after logLicenseNotice(): stored is what the host's
\* credential store resolves to
getCredentials(stored) ==
    IF ~stored.present
    THEN Throw(NodeOperationError("No credentials provided"))
    ELSE LET jwk == parseJwk(stored.walletJwk) IN
         IF jwk.st = "throw" THEN jwk
         ELSE Ok([walletJwk |-> stored.walletJwk,
                  gatewayUrl |-> StringOr(stored.gatewayUrl, DEFAULT_GATEWAY),
                  graphqlEndpoint |-> StringOr(stored.graphqlEndpoint, DEFAULT_GRAPHQL),
                  bundlrEndpoint |-> stored.bundlrEndpoint,
                  network |-> StringOr(stored.network, "mainnet"),
                  timeout |-> NumberOr(stored.timeout, DEFAULT_TIMEOUT),
                  jwk |-> jwk.val,
                  address |-> deriveAddressFromJwk(jwk.val)])

\* { ...base, ...extra } on header objects (an undefined spread adds nothing)
Spread(base, extra) ==
    IF extra.type = "undefined" THEN base
    ELSE [k \in DOMAIN base \cup DOMAIN extra.fields |->
            IF k \in DOMAIN extra.fields THEN extra.fields[k] ELSE base[k]]

JsonHeaders ==
    [k \in {"Content-Type", "Accept"} |-> "application/json"]

\* the options arweaveApiRequest hands to context.helpers.httpRequest; an
\* option that is never assigned reads as undefined
arweaveApiRequestOptions(credentials, args) ==
    [method |-> args.method,
     url |-> credentials.gatewayUrl \o args.endpoint,
     headers |-> Spread(JsonHeaders, args.headers),
     timeout |-> credentials.timeout,
     returnFullResponse |-> FALSE,
     body |-> IF Truthy(args.body) THEN args.body ELSE JsUndefined,
     qs |-> IF Truthy(args.qs) /\ DOMAIN args.qs.fields # {}
            THEN args.qs ELSE JsUndefined]

graphqlRequestOptions(credentials, args) ==
    [method |-> "POST",
     url |-> IF credentials.graphqlEndpoint # ""
             THEN credentials.graphqlEndpoint
             ELSE credentials.gatewayUrl \o "/graphql",
     headers |-> JsonHeaders,
     body |-> [query |-> args.query, variables |-> args.variables],
     timeout |-> credentials.timeout]

getTransactionDataOptions(credentials, args) ==
    [method |-> "GET",
     url |-> credentials.gatewayUrl \o "/" \o args.txId,
     returnFullResponse |-> FALSE,
     encoding |-> IF args.decode THEN "text" ELSE "arraybuffer",
     timeout |-> credentials.timeout]

getRawDataOptions(credentials, args) ==
    [method |-> "GET",
     url |-> credentials.gatewayUrl \o "/" \o args.txId,
     returnFullResponse |-> FALSE,
     encoding |-> "arraybuffer",
     timeout |-> credentials.timeout]

(***************************************************************************)
(* What each function does once its httpRequest settles.  settled is       *)
(* Ok(response) or Throw(error) from the HTTP client; the value is the     *)
(* next position of the call and its outcome.                              *)
(***************************************************************************)
Done(outcome) == [pc |-> "done", result |-> outcome]

\* a slip: the catch block rethrows what it caught
arweaveApiRequestSettled_Rethrow(settled) ==
    Done(settled)

arweaveApiRequestSettled(settled) ==
    IF settled.st = "ok" THEN Done(Ok(settled.val))
    ELSE Done(Throw(NodeApiError(settled.val)))

RECURSIVE JoinFrom(_, _, _)
JoinFrom(strs, sep, i) ==
    IF i > Len(strs) THEN ""
    ELSE IF i = Len(strs) THEN strs[i]
    ELSE strs[i] \o sep \o JoinFrom(strs, sep, i + 1)

\* Array.prototype.join
Join(strs, sep) == JoinFrom(strs, sep, 1)

\* errors.map((e) => e.message)
Messages(errors) == [i \in 1..Len(errors) |-> errors[i].message]

\* a slip: a response that carries data is returned even with errors
graphqlRequestSettled_DataWins(settled) ==
    IF settled.st = "throw" THEN Done(Throw(NodeApiError(settled.val)))
    ELSE IF settled.val.type \in {"null", "undefined"}
    THEN Done(Throw(NodeApiError(JsError("TypeError",
              "Cannot read properties of " \o settled.val.type))))
    ELSE IF /\ settled.val.fields.data.type = "undefined"
            /\ Truthy(settled.val.fields.errors)
            /\ Len(settled.val.fields.errors.items) > 0
    THEN Done(Throw(NodeApiError(JsError("Error",
              Join(Messages(settled.val.fields.errors.items), ", ")))))
    ELSE Done(Ok(settled.val.fields.data))

\* a slip: a failed request is issued again
graphqlRequestSettled_Retry(settled) ==
    IF settled.st = "throw" THEN [pc |-> "request", result |-> Pending]
    ELSE Done(Ok(settled.val))

\* a response is null, or an object whose data and errors fields are
\* JavaScript values (undefined when the field is missing); reading a
\* field of null throws a TypeError inside the try block
graphqlRequestSettled(settled) ==
    IF settled.st = "throw" THEN Done(Throw(NodeApiError(settled.val)))
    ELSE IF settled.val.type \in {"null", "undefined"}
    THEN Done(Throw(NodeApiError(JsError("TypeError",
              "Cannot read properties of " \o settled.val.type))))
    ELSE IF /\ Truthy(settled.val.fields.errors)
            /\ Len(settled.val.fields.errors.items) > 0
    THEN Done(Throw(NodeApiError(JsError("Error",
              Join(Messages(settled.val.fields.errors.items), ", ")))))
    ELSE Done(Ok(settled.val.fields.data))

getTransactionDataSettled(settled) ==
    IF settled.st = "ok" THEN Done(Ok(settled.val))
    ELSE Done(Throw(NodeApiError(settled.val)))

\* Buffer.from(response): the bytes of an ArrayBuffer; a TypeError, thrown
\* inside the try block, for null
getRawDataSettled(settled) ==
    IF settled.st = "throw" THEN Done(Throw(NodeApiError(settled.val)))
    ELSE IF settled.val.type = "arraybuffer"
    THEN Done(Ok(Buffer(settled.val.bytes)))
    ELSE Done(Throw(NodeApiError(JsError("TypeError",
              "The first argument must be of type string or an instance of Buffer"))))

(***************************************************************************)
(* The utility resource (executeUtilityOperation): the cases winstonToAR   *)
(* and arToWinston.  The amounts are code-unit strings; the value is the   *)
(* json of the record pushed to returnData, or the error thrown.           *)
(***************************************************************************)
\* /^\d+$/.test(str)
DigitsRegexTest(str) ==
    /\ Len(str) >= 1
    /\ \A i \in 1..Len(str) : IsDigit(str[i])

\* x < 0 on Numbers (NaN and -0 are not below 0)
NumberIsNegative(x) == ~x.nan /\ x.neg /\ x.m # <<>>

\* ' AR' and ' winston'
SuffixAr == <<32, 65, 82>>
SuffixWinston == <<32, 119, 105, 110, 115, 116, 111, 110>>

utilityWinstonToAR(winstonAmount) ==
    IF winstonAmount = <<>> \/ ~DigitsRegexTest(winstonAmount)
    THEN Throw(NodeOperationError(
             "Invalid winston amount - must be a positive integer string"))
    ELSE LET arAmount == winstonToAR(winstonAmount)
         IN  IF arAmount.st # "ok" THEN arAmount
             ELSE Ok([success |-> TRUE,
                      winston |-> winstonAmount,
                      ar |-> arAmount.val,
                      formatted |-> arAmount.val \o SuffixAr])

utilityArToWinston(arAmount) ==
    IF \/ arAmount = <<>>
       \/ ParseFloat(arAmount).nan
       \/ NumberIsNegative(ParseFloat(arAmount))
    THEN Throw(NodeOperationError(
             "Invalid AR amount - must be a non-negative number"))
    ELSE LET winstonAmount == arToWinston(arAmount)
         IN  IF winstonAmount.st # "ok" THEN winstonAmount
             ELSE Ok([success |-> TRUE,
                      ar |-> arAmount,
                      winston |-> winstonAmount.val,
                      formatted |-> winstonAmount.val \o SuffixWinston])

(***************************************************************************)
(* The nodes.  Two Arweave classes are in the repository: one whose        *)
(* execute hands each item to the handler of its resource in actions/      *)
(* (part_005 158-227), here nodeClass = "actions", and one whose execute   *)
(* hands all items to the handler of the first item's resource             *)
(* (part_004 1127-1148), here nodeClass = "handlers".  A URL is a sequence *)
(* of code units, as a transaction ID is; the parameters of an item are    *)
(* [resource, operation, transactionId].  What a handler does for one item *)
(* is split at its await of the HTTP client: ...Start is the part before,  *)
(* giving the error thrown or Await(request), and ...Settled the part      *)
(* after, giving Ok(records) or the error thrown.                          *)
(***************************************************************************)
\* the code units of the string literals that make up URLs
Units(str) ==
    CASE str = "https://arweave.net" ->
           <<104, 116, 116, 112, 115, 58, 47, 47, 97, 114, 119, 101, 97, 118, 101, 46, 110, 101, 116>>
      [] str = "http://localhost:1984" ->
           <<104, 116, 116, 112, 58, 47, 47, 108, 111, 99, 97, 108, 104, 111, 115, 116, 58, 49, 57, 56, 52>>
      [] str = "/tx/" ->
           <<47, 116, 120, 47>>
      [] str = "/status" ->
           <<47, 115, 116, 97, 116, 117, 115>>
      [] str = "/tx/pending" ->
           <<47, 116, 120, 47, 112, 101, 110, 100, 105, 110, 103>>
      [] str = "/tx_anchor" ->
           <<47, 116, 120, 95, 97, 110, 99, 104, 111, 114>>
      [] str = "/current_block" ->
           <<47, 99, 117, 114, 114, 101, 110, 116, 95, 98, 108, 111, 99, 107>>
      [] str = "/graphql" ->
           <<47, 103, 114, 97, 112, 104, 113, 108>>
      [] str = "Content-Type" ->
           <<67, 111, 110, 116, 101, 110, 116, 45, 84, 121, 112, 101>>
      [] str = "text/plain" ->
           <<116, 101, 120, 116, 47, 112, 108, 97, 105, 110>>
      [] str = "/price/" ->
           <<47, 112, 114, 105, 99, 101, 47>>
      [] str = "Invalid file size: " ->
           <<73, 110, 118, 97, 108, 105, 100, 32, 102, 105, 108, 101, 32, 115, 105, 122, 101, 58, 32>>
      [] str = "unknown" ->
           <<117, 110, 107, 110, 111, 119, 110>>

Await(request) == [st |-> "await", val |-> request]

\* an outcome reached through getCredentials, which calls logLicenseNotice
Noticed(outcome) == [st |-> outcome.st, val |-> outcome.val, notice |-> TRUE]

\* arweaveApiRequest up to its httpRequest
arweaveApiRequestStart(stored, method, endpoint) ==
    LET credentials == getCredentials(stored) IN
    IF credentials.st = "throw" THEN Noticed(credentials)
    ELSE Noticed(Await([method |-> method,
                        url |-> Units(credentials.val.gatewayUrl) \o endpoint,
                        timeout |-> credentials.val.timeout]))

InvalidTransactionId ==
    NodeOperationError(
        "Invalid transaction ID format. Must be a 43-character Base64URL string.")

\* a slip: the name is left out of the message
UnknownOperation_NoName(operation) ==
    NodeOperationError("Unknown operation")

UnknownOperation(operation) ==
    NodeOperationError("Unknown operation: " \o operation)

executeTransactionsOperationStart(stored, params) ==
    CASE params.operation = "getTransactionStatus" ->
           IF ~isValidTransactionId(JsString(params.transactionId)).val
           THEN Throw(InvalidTransactionId)
           ELSE arweaveApiRequestStart(stored, "GET",
                    Units("/tx/") \o params.transactionId \o Units("/status"))
      [] params.operation = "getPendingTransactions" ->
           arweaveApiRequestStart(stored, "GET", Units("/tx/pending"))
      [] OTHER -> Throw(UnknownOperation(params.operation))

executeTransactionsOperationSettled(params, settled) ==
    IF settled.st = "throw" THEN Throw(NodeApiError(settled.val))
    ELSE CASE params.operation = "getTransactionStatus" ->
                Ok(<<[json |-> [success |-> TRUE,
                                transactionId |-> params.transactionId,
                                status |-> settled.val,
                                confirmed |->
                                    settled.val.fields.number_of_confirmations > 0]]>>)
           [] params.operation = "getPendingTransactions" ->
                Ok(<<[json |-> [success |-> TRUE,
                                pendingCount |-> Len(settled.val.items),
                                transactions |-> settled.val]]>>)

\* the handler's catch: a NodeOperationError passes, any other error is wrapped
executeTransactionsOperationCatch(error) ==
    IF error.name = "NodeOperationError" THEN error
    ELSE NodeOperationError(error.message)

\* execute's switch on the item's resource
ArweaveExecuteStart(stored, params) ==
    IF params.resource = "transactions"
    THEN LET started == executeTransactionsOperationStart(stored, params) IN
         IF started.st = "throw"
         THEN [started EXCEPT !.val = executeTransactionsOperationCatch(@)]
         ELSE started
    ELSE Throw(NodeOperationError("Unknown resource: " \o params.resource))

ArweaveExecuteSettled(params, settled) ==
    LET handled == executeTransactionsOperationSettled(params, settled) IN
    IF handled.st = "throw"
    THEN Throw(executeTransactionsOperationCatch(handled.val))
    ELSE handled

\* a slip: the record is paired to the first item
ArweaveExecuteCatch_FirstItem(error, index) ==
    [json |-> [error |-> error.message], pairedItem |-> [item |-> 0]]

\* execute's catch with Continue on Fail: the record pushed for the item
ArweaveExecuteCatch(error, index) ==
    [json |-> [error |-> error.message], pairedItem |-> [item |-> index]]

\* credentials.baseUrl || 'https://arweave.net': the stored credentials have
\* a gatewayUrl and no baseUrl
BaseUrl(stored) == Units(DEFAULT_GATEWAY)

NullCredentials ==
    JsError("TypeError", "Cannot read properties of null (reading 'baseUrl')")

\* one pass of the loop of executeTransactionOperations up to its httpRequest
executeTransactionOperationsStart(stored, operation, params) ==
    CASE operation = "getTransactionStatus" ->
           IF ~stored.present THEN Throw(NullCredentials)
           ELSE Await([method |-> "GET",
                       url |-> BaseUrl(stored) \o Units("/tx/")
                               \o params.transactionId \o Units("/status")])
      [] operation = "getTransactionAnchor" ->
           IF ~stored.present THEN Throw(NullCredentials)
           ELSE Await([method |-> "POST",
                       url |-> BaseUrl(stored) \o Units("/tx_anchor")])
      [] OTHER -> Throw(UnknownOperation(operation))

executeGraphQLQueryOperationsStart(stored, operation, params) ==
    CASE operation = "getSchema" ->
           IF ~stored.present THEN Throw(NullCredentials)
           ELSE Await([method |-> "POST",
                       url |-> BaseUrl(stored) \o Units("/graphql")])
      [] OTHER -> Throw(UnknownOperation(operation))

\* credentials?.baseUrl: null credentials are tolerated here
executeBlockOperationsStart(stored, operation, params) ==
    CASE operation = "getCurrentBlock" ->
           Await([method |-> "GET",
                  url |-> BaseUrl(stored) \o Units("/current_block")])
      [] OTHER -> Throw(UnknownOperation(operation))

HandlerStart(resource, stored, operation, params) ==
    CASE resource = "transaction" ->
           executeTransactionOperationsStart(stored, operation, params)
      [] resource = "graphQLQuery" ->
           executeGraphQLQueryOperationsStart(stored, operation, params)
      [] resource = "block" ->
           executeBlockOperationsStart(stored, operation, params)

\* the three handlers alike: the response is the item's record, a failure
\* of the HTTP client goes to the catch as it is
HandlerSettled(settled, index) ==
    IF settled.st = "throw" THEN settled
    ELSE Ok(<<[json |-> settled.val, pairedItem |-> [item |-> index]]>>)

HasHttpCode(error) == "httpCode" \in DOMAIN error

\* the handlers' catch with Continue on Fail: the record pushed for the item
HandlerCatchRecord(resource, operation, error, index) ==
    CASE resource = "transaction" ->
           [json |-> [error |-> StringOr(error.message, "Unknown error occurred")],
            pairedItem |-> [item |-> index]]
      [] resource = "graphQLQuery" ->
           [json |-> [error |-> error.message],
            pairedItem |-> [item |-> index]]
      [] resource = "block" ->
           [json |-> [error |-> error.message, operation |-> operation,
                      itemIndex |-> index],
            pairedItem |-> [item |-> index]]

\* a slip: the failure is replaced by a fixed error
HandlerCatchThrow_Generic(resource, error) ==
    NodeOperationError("The operation failed")

\* the handlers' catch without Continue on Fail: the error thrown on
HandlerCatchThrow(resource, error) ==
    CASE resource = "transaction" ->
           IF HasHttpCode(error) THEN NodeApiError(error)
           ELSE NodeOperationError(
                    StringOr(error.message, "Unknown error occurred"))
      [] resource = "graphQLQuery" -> NodeApiError(error)
      [] resource = "block" ->
           IF HasHttpCode(error) THEN NodeApiError(error)
           ELSE NodeOperationError(error.message)

\* the resources execute has a handler for, of those modelled
HandlerResources == {"transaction", "graphQLQuery", "block"}

(***************************************************************************)
(* The upload operations, as far as the tags of the body they build go:    *)
(* uploadData and createDataItem of executeDataUploadOperation (part_006)  *)
(* and uploadData of executeDataOperations (part_004).  tags are the       *)
(* caller's [name, value] pairs; of the body, the owner, the reward and    *)
(* the tags are kept.                                                      *)
(***************************************************************************)
ContentTypeTag(contentType) ==
    [name |-> Units("Content-Type"), value |-> contentType]

\* the handler's catch: a NodeOperationError passes, any other error is wrapped
executeDataUploadOperationCatch(error) ==
    IF error.name = "NodeOperationError" THEN error
    ELSE NodeOperationError(error.message)

\* uploadData: the price is asked for (settled is how that request ends),
\* then the tags are encoded and the transaction is put together
uploadData(stored, tags, contentType, settled) ==
    LET credentials == getCredentials(stored)
        userTags == Append(tags, ContentTypeTag(contentType))
        encodedTags == encodeTags(userTags)
    IN  IF credentials.st = "throw"
        THEN Throw(executeDataUploadOperationCatch(credentials.val))
        ELSE IF settled.st = "throw"
        THEN Throw(executeDataUploadOperationCatch(NodeApiError(settled.val)))
        ELSE IF encodedTags.st = "throw"
        THEN Throw(executeDataUploadOperationCatch(encodedTags.val))
        ELSE Ok([owner |-> credentials.val.jwk.n,
                 reward |-> settled.val,
                 tags |-> encodedTags.val])

createDataItem(stored, tags, contentType) ==
    LET credentials == getCredentials(stored)
        userTags == Append(tags, ContentTypeTag(contentType))
        encodedTags == encodeTags(userTags)
    IN  IF credentials.st = "throw"
        THEN Throw(executeDataUploadOperationCatch(credentials.val))
        ELSE IF encodedTags.st = "throw"
        THEN Throw(executeDataUploadOperationCatch(encodedTags.val))
        ELSE Ok([owner |-> credentials.val.jwk.n,
                 reward |-> "",
                 tags |-> encodedTags.val])

\* Buffer.from(str).toString('base64'): the UTF-8 bytes of the text (those
\* Utf8Parse gives, for text without lone surrogates) in padded Base64
BufferToBase64(str) == Base64Stringify(Utf8Parse(str).val)

\* uploadData of executeDataOperations: the body of the POST to /tx
HandlerUploadDataBody(tags) ==
    [owner |-> "", reward |-> "",
     tags |-> [i \in 1..Len(tags) |->
                  [name |-> BufferToBase64(tags[i].name),
                   value |-> BufferToBase64(tags[i].value)]]]

(***************************************************************************)
(* The batch pricing of estimateUploadCost (pricing/index.ts 199-251) and  *)
(* batchUpload (part_006 486-547).  entries are the comma-separated parts  *)
(* of fileSizes, or the data of the batch items; a price is the string the *)
(* gateway answers with; the running total is a BigInt, here its           *)
(* magnitude in limbs (prices are not negative).                           *)
(***************************************************************************)
ChSpace == 32

\* a natural in a template literal: its decimal digits
RECURSIVE DecimalString(_)
DecimalString(n) ==
    IF n < 10 THEN <<Ch0 + n>>
    ELSE Append(DecimalString(n \div 10), Ch0 + (n % 10))

RECURSIVE DecimalValue(_, _)
DecimalValue(str, n) ==
    IF n = 0 THEN 0 ELSE (10 * DecimalValue(str, n - 1)) + (str[n] - Ch0)

RECURSIVE Trim(_)
Trim(str) ==
    IF str # <<>> /\ str[1] = ChSpace THEN Trim(Tail(str))
    ELSE IF str # <<>> /\ str[Len(str)] = ChSpace
    THEN Trim(SubSeq(str, 1, Len(str) - 1))
    ELSE str

\* parseInt(str, 10) of a trimmed string: an optional '-' and the digits
\* that follow, NaN if there are none; [nan, int]
ParseInt(str) ==
    LET neg == str # <<>> /\ str[1] = ChMinus
        rest == IF neg THEN Tail(str) ELSE str
        run == DigitRun(rest, 1)
    IN  IF run = 0 THEN [nan |-> TRUE, int |-> 0]
        ELSE [nan |-> FALSE,
              int |-> (IF neg THEN -1 ELSE 1) * DecimalValue(rest, run)]

\* fileSizesStr.split(',').map(...): the sizes, or the error of the first
\* part that is no size
RECURSIVE fileSizesFrom(_, _, _)
fileSizesFrom(entries, i, acc) ==
    IF i > Len(entries) THEN Ok(acc)
    ELSE LET size == ParseInt(Trim(entries[i]))
         IN  IF size.nan \/ size.int < 0
             THEN Throw([name |-> "NodeOperationError",
                         message |-> Units("Invalid file size: ") \o entries[i]])
             ELSE fileSizesFrom(entries, i + 1, Append(acc, size.int))

\* a + b on magnitudes
RECURSIVE BigAddFrom(_, _, _, _)
BigAddFrom(a, b, i, carry) ==
    IF i > Len(a) /\ i > Len(b)
    THEN (IF carry = 0 THEN <<>> ELSE <<carry>>)
    ELSE LET t == ByteAt(a, i - 1) + ByteAt(b, i - 1) + carry
         IN  <<t % LimbBase>> \o BigAddFrom(a, b, i + 1, t \div LimbBase)

BigAdd(a, b) == BigAddFrom(a, b, 1, 0)

\* the operation up to its first getPrice: the sizes of the batch, or the
\* error it fails with before asking for any price
BatchSizes(op, stored, entries) ==
    IF op = "estimateUploadCost" THEN fileSizesFrom(entries, 1, <<>>)
    ELSE IF getCredentials(stored).st = "throw" THEN getCredentials(stored)
    ELSE Ok([i \in 1..Len(entries) |-> Len(Utf8Parse(entries[i]).val)])

\* getPrice(this, bytes) up to its httpRequest
getPriceStart(stored, bytes) ==
    arweaveApiRequestStart(stored, "GET",
                           Units("/price/") \o DecimalString(bytes))

\* a slip: = for +=
AddPrice_Overwrite(total, priceWinston) ==
    LET price == StringToBigInt(priceWinston)
    IN  IF price.st = "throw"
        THEN Throw(JsError("SyntaxError", "Cannot convert to a BigInt"))
        ELSE Ok(price.val.mag)

\* totalCostWinston += BigInt(priceWinston)
AddPrice(total, priceWinston) ==
    LET price == StringToBigInt(priceWinston)
    IN  IF price.st = "throw"
        THEN Throw(JsError("SyntaxError", "Cannot convert to a BigInt"))
        ELSE Ok(BigAdd(total, price.val.mag))

\* the record pushed once every price is in
BatchRecord(op, sizes, total) ==
    LET winston == BigIntToString([neg |-> FALSE, mag |-> total])
    IN  [success |-> TRUE,
         count |-> Len(sizes),
         total |-> [winston |-> winston, ar |-> winstonToAR(winston).val]]

(***************************************************************************)
(* helpers.ts: formatFileSize.  bytes is a Number holding a non-negative   *)
(* integer.  Math.log(bytes) / Math.log(k) is taken to fall on the same    *)
(* side of every integer as the exact logarithm, which holds away from the *)
(* last few units below a power of k beyond 2^48; dividing by              *)
(* Math.pow(k, i), a power of two, is exact.                               *)
(***************************************************************************)
FileSizeLogK == 10
ChBlank == 32

\* const sizes = ['Bytes', 'KB', 'MB', 'GB', 'TB']
FileSizeUnits ==
    <<<<66, 121, 116, 101, 115>>, <<75, 66>>, <<77, 66>>, <<71, 66>>,
      <<84, 66>>>>

\* String(undefined)
UndefinedText == <<117, 110, 100, 101, 102, 105, 110, 101, 100>>

\* whether two finite Numbers are the same value
NumberEquals(x, y) ==
    LET e == IF x.e < y.e THEN x.e ELSE y.e
    IN  /\ ~x.nan /\ ~y.nan
        /\ (x.neg = y.neg \/ (x.m = <<>> /\ y.m = <<>>))
        /\ BigTrim(BigShl(x.m, x.e - e)) = BigTrim(BigShl(y.m, y.e - e))

\* Math.floor(Math.log(x) / Math.log(2^logK)) for an integer x >= 1
LogFloor(x, logK) == ((BigBitLen(x.m) + x.e) - 1) \div logK

\* Number.prototype.toString() of a non-negative Number that some decimal
\* of at most two fractional digits reads back as: the shortest such
\* decimal ('NaN' otherwise stands for the values that do not arise)
RECURSIVE NumberToStringFrom(_, _)
NumberToStringFrom(x, f) ==
    LET fixed == NumberToFixed(x, f)
        text == IF f = 0 THEN SubSeq(fixed, 1, Len(fixed) - 1) ELSE fixed
    IN  IF NumberEquals(ParseFloat(text), x) THEN text
        ELSE IF f = 2 THEN <<78, 97, 78>>
        ELSE NumberToStringFrom(x, f + 1)

NumberToString(x) == NumberToStringFrom(x, 0)

formatFileSize(bytes) ==
    IF bytes.m = <<>> THEN <<Ch0, ChBlank>> \o FileSizeUnits[1]
    ELSE LET i == LogFloor(bytes, FileSizeLogK)
             scaled == Num(FALSE, bytes.m, bytes.e - (FileSizeLogK * i))
             unit == IF i + 1 <= Len(FileSizeUnits) THEN FileSizeUnits[i + 1]
                     ELSE UndefinedText
         IN  NumberToString(ParseFloat(NumberToFixed(scaled, 2)))
             \o <<ChBlank>> \o unit

(***************************************************************************)
(* ArweaveTrigger.node.ts: the trigger's own license notice flag and poll. *)
(* A poll runs from request to request; the static data of the node        *)
(* (lastProcessedId, lastHeight) lasts from poll to poll.  An id is a      *)
(* string, '' where the static data holds none; lastHeight is              *)
(* [known, height].                                                        *)
(***************************************************************************)
TRIGGER_GATEWAY == "https://arweave.net"
TRIGGER_TIMEOUT == 30000
LARGE_UPLOAD_FIRST == 100

\* gatewayUrl, graphqlUrl and timeout as poll reads them off the credentials
pollConfig(stored) ==
    LET gatewayUrl == StringOr(stored.gatewayUrl, TRIGGER_GATEWAY) IN
    [gatewayUrl |-> gatewayUrl,
     graphqlUrl |-> StringOr(stored.graphqlEndpoint, gatewayUrl \o "/graphql"),
     timeout |-> NumberOr(stored.timeout, TRIGGER_TIMEOUT)]

\* the wallet address is derived if the stored key parses, '' otherwise
pollHasWallet(stored) == parseJwk(stored.walletJwk).st = "ok"

pollGraphqlOptions(cfg, query, variables) ==
    [method |-> "POST",
     url |-> cfg.graphqlUrl,
     headers |-> [ContentType |-> "application/json"],
     body |-> [query |-> query, variables |-> variables],
     timeout |-> cfg.timeout]

pollGetOptions(cfg, path) ==
    [method |-> "GET", url |-> cfg.gatewayUrl \o path, timeout |-> cfg.timeout]

\* the catch around the switch
pollCatch(message) == Throw(NodeOperationError(message))

\* the end of poll: null when nothing was collected
pollReturn(collected) ==
    IF collected = <<>> THEN Ok(JsNull) ELSE Ok(JsArray(<<collected>>))

NoPoll ==
    [pc |-> "idle", step |-> "none", cfg |-> <<>>, sent |-> <<>>,
     current |-> 0, hash |-> "", h |-> 0, returnData |-> <<>>,
     result |-> Pending]

\* poll stops with the outcome
pollDone(run, outcome) == [run EXCEPT !.pc = "done", !.result = outcome]

\* poll issues a request and waits for it
pollAwait(run, step, options) ==
    [run EXCEPT !.pc = "await", !.step = step, !.sent = Append(@, options)]

\* poll up to its first request
pollStart(stored, params) ==
    IF ~stored.present
    THEN pollDone(NoPoll, Throw(NodeOperationError(
                                    "Node does not have any credentials set")))
    ELSE
    LET cfg == pollConfig(stored)
        run == [NoPoll EXCEPT !.cfg = cfg]
        type == params.triggerType
    IN  CASE type = "newTransactionByTag" ->
               IF params.tags = <<>>
               THEN pollDone(run, pollCatch("At least one tag is required"))
               ELSE pollAwait(run, "query",
                        pollGraphqlOptions(cfg, "GetTransactionsByTag",
                            [tags |-> params.tags, first |-> params.limit]))
          [] type = "newTransactionByOwner" ->
               IF params.ownerAddress = "" /\ ~pollHasWallet(stored)
               THEN pollDone(run, pollCatch("Owner address is required"))
               ELSE pollAwait(run, "query",
                        pollGraphqlOptions(cfg, "GetTransactionsByOwner",
                            [owners |->
                                <<IF params.ownerAddress # ""
                                  THEN <<"address", params.ownerAddress>>
                                  ELSE deriveAddressFromJwk(
                                           parseJwk(stored.walletJwk).val)>>,
                             first |-> params.limit]))
          [] type = "blockMined" ->
               pollAwait(run, "info", pollGetOptions(cfg, "/info"))
          [] type = "largeUploadDetected" ->
               pollAwait(run, "query",
                   pollGraphqlOptions(cfg, "GetLargeUploads",
                       [minSize |-> params.sizeThreshold,
                        first |-> LARGE_UPLOAD_FIRST]))
          [] type = "contractStateChanged" ->
               pollAwait(run, "query",
                   pollGraphqlOptions(cfg, "GetContractInteractions",
                       [contractId |-> params.contractId,
                        first |-> params.limit]))
          [] OTHER ->
               pollDone(run, pollCatch("Unknown trigger type: " \o type))

\* the edges that pass the size filter of largeUploadDetected, or all
pollTransactions(params, edges) ==
    IF params.triggerType # "largeUploadDetected" THEN edges
    ELSE SelectSeq(edges,
             LAMBDA edge :
                 /\ edge.data.present
                 /\ ~ParseInt(edge.data.size).nan
                 /\ ParseInt(edge.data.size).int >= params.sizeThreshold)

\* the edges the loop goes over: largeUploadDetected cuts them to the limit
pollEdges(params, transactions) ==
    IF params.triggerType # "largeUploadDetected" THEN transactions
    ELSE SubSeq(transactions, 1, IF Len(transactions) < params.limit
                                 THEN Len(transactions) ELSE params.limit)

\* the value of the first tag of that name, <<>> with found FALSE if none
RECURSIVE pollFindTag(_, _, _)
pollFindTag(tags, name, i) ==
    IF i > Len(tags) THEN [found |-> FALSE, value |-> <<>>]
    ELSE IF tags[i].name = name THEN [found |-> TRUE, value |-> tags[i].value]
    ELSE pollFindTag(tags, name, i + 1)

\* the item pushed for an edge whose tags decoded
pollItem(params, edge, decodedTags) ==
    CASE params.triggerType = "largeUploadDetected" ->
           LET contentType == pollFindTag(decodedTags, Units("Content-Type"), 1)
           IN  [id |-> edge.id, tags |-> decodedTags,
                dataSize |-> ParseInt(edge.data.size).int,
                contentType |-> IF contentType.found /\ contentType.value # <<>>
                                THEN contentType.value ELSE Units("unknown")]
      [] params.triggerType = "contractStateChanged" ->
           [interactionId |-> edge.id, contractId |-> params.contractId,
            tags |-> decodedTags]
      [] OTHER ->
           [id |-> edge.id, tags |-> decodedTags]

\* a slip: the loop does not stop at the last processed id
RECURSIVE pollCollect_NoBreak(_, _, _, _, _)
pollCollect_NoBreak(params, edges, lastProcessedId, i, acc) ==
    IF i > Len(edges) THEN Ok(acc)
    ELSE LET decoded == decodeTags(edges[i].tags) IN
         IF decoded.st = "throw" THEN decoded
         ELSE pollCollect_NoBreak(params, edges, lastProcessedId, i + 1,
                          Append(acc, pollItem(params, edges[i], decoded.val)))

\* the loop over the edges: stops at the last processed id, fails where a
\* tag does not decode
RECURSIVE pollCollect(_, _, _, _, _)
pollCollect(params, edges, lastProcessedId, i, acc) ==
    IF i > Len(edges) THEN Ok(acc)
    ELSE IF lastProcessedId # "" /\ edges[i].id = lastProcessedId THEN Ok(acc)
    ELSE LET decoded == decodeTags(edges[i].tags) IN
         IF decoded.st = "throw" THEN decoded
         ELSE pollCollect(params, edges, lastProcessedId, i + 1,
                          Append(acc, pollItem(params, edges[i], decoded.val)))

\* a slip: the newest id is stored before the edges are gone through
pollQuerySettled_StoresFirst(run, data, params, settled) ==
    IF settled.st = "throw"
    THEN [run |-> pollDone(run, pollCatch(settled.val.message)), data |-> data]
    ELSE IF ~settled.val.wellFormed
    THEN [run |-> pollDone(run, pollCatch(
              "Cannot read properties of undefined (reading 'transactions')")),
          data |-> data]
    ELSE LET transactions == pollTransactions(params, settled.val.edges)
             collected == pollCollect(params,
                                      pollEdges(params, transactions),
                                      data.lastProcessedId, 1, <<>>)
             stored == IF transactions = <<>> THEN data
                       ELSE [data EXCEPT !.lastProcessedId = transactions[1].id]
         IN  IF collected.st = "throw"
             THEN [run |-> pollDone(run, pollCatch(collected.val)),
                   data |-> stored]
             ELSE [run |-> pollDone([run EXCEPT !.returnData = collected.val],
                                    pollReturn(collected.val)),
                   data |-> stored]

\* a GraphQL response is in: [run, data] after it
pollQuerySettled(run, data, params, settled) ==
    IF settled.st = "throw"
    THEN [run |-> pollDone(run, pollCatch(settled.val.message)), data |-> data]
    ELSE IF ~settled.val.wellFormed
    THEN [run |-> pollDone(run, pollCatch(
              "Cannot read properties of undefined (reading 'transactions')")),
          data |-> data]
    ELSE LET transactions == pollTransactions(params, settled.val.edges)
             collected == pollCollect(params,
                                      pollEdges(params, transactions),
                                      data.lastProcessedId, 1, <<>>)
         IN  IF collected.st = "throw"
             THEN [run |-> pollDone(run, pollCatch(collected.val)),
                   data |-> data]
             ELSE [run |-> pollDone([run EXCEPT !.returnData = collected.val],
                                    pollReturn(collected.val)),
                   data |-> IF transactions = <<>> THEN data
                            ELSE [data EXCEPT !.lastProcessedId =
                                                  transactions[1].id]]

\* the loop over the new heights: asks for block h, or is through
pollBlocks(run, data, params, h) ==
    LET last == data.lastHeight.height
        upto == IF run.current < last + params.limit
                THEN run.current ELSE last + params.limit
    IN  IF h <= upto
        THEN [run |-> pollAwait([run EXCEPT !.h = h], "height",
                          pollGetOptions(run.cfg,
                                         "/block/height/" \o ToString(h))),
              data |-> data]
        ELSE [run |-> pollDone(run, pollReturn(run.returnData)),
              data |-> [data EXCEPT !.lastHeight =
                                        [known |-> TRUE, height |-> run.current]]]

\* a response of blockMined is in: [run, data] after it
pollBlockSettled(run, data, params, settled) ==
    IF settled.st = "throw"
    THEN [run |-> pollDone(run, pollCatch(settled.val.message)), data |-> data]
    ELSE CASE run.step = "info" ->
                IF ~data.lastHeight.known
                   \/ settled.val.height > data.lastHeight.height
                THEN [run |-> pollAwait([run EXCEPT
                                           !.current = settled.val.height,
                                           !.hash = settled.val.current],
                                  "hash",
                                  pollGetOptions(run.cfg,
                                      "/block/hash/" \o settled.val.current)),
                      data |-> data]
                ELSE [run |-> pollDone(run, pollReturn(<<>>)), data |-> data]
           [] run.step = "hash" ->
                IF ~data.lastHeight.known
                THEN [run |-> pollDone(run, pollReturn(<<>>)),
                      data |-> [data EXCEPT !.lastHeight =
                                   [known |-> TRUE, height |-> run.current]]]
                ELSE pollBlocks(run, data, params, data.lastHeight.height + 1)
           [] run.step = "height" ->
                pollBlocks([run EXCEPT !.returnData =
                               Append(@, [height |-> settled.val.height,
                                          hash |-> settled.val.indep_hash,
                                          transactionCount |-> settled.val.txs])],
                           data, params, run.h + 1)

pollSettled(run, data, params, settled) ==
    IF run.step = "query" THEN pollQuerySettled(run, data, params, settled)
    ELSE pollBlockSettled(run, data, params, settled)

(***************************************************************************)
(* The codec under test: a text is encoded, the result decoded.            *)
(***************************************************************************)
\* '+', '/', '=', '>', '?', 'A', U+00E9, U+20AC and the surrogate pair of
\* U+1F600: one to four UTF-8 octets, and octets whose Base64 has '+', '/'.
TextAlphabet == {ChPlus, ChSlash, ChEquals, 62, 63, 65, 233, 8364, 55357, 56832}

SeqsUpTo(S, n) == UNION {[1..k -> S] : k \in 0..n}

\* valid Unicode text: every surrogate is half of a pair
WellFormed(s) ==
    \A i \in 1..Len(s) :
        /\ IsHighSurrogate(s[i]) => (i < Len(s) /\ IsLowSurrogate(s[i + 1]))
        /\ IsLowSurrogate(s[i]) => (i > 1 /\ IsHighSurrogate(s[i - 1]))

Texts == {s \in SeqsUpTo(TextAlphabet, MaxTextLen) : WellFormed(s)}

CodecIdle ==
    /\ cIn = <<>>
    /\ cEnc = Pending
    /\ cDec = Pending

TagsIdle ==
    /\ tIn = <<>>
    /\ tEnc = Pending
    /\ tDec = Pending

WinstonIdle ==
    /\ uIn = <<>>
    /\ uAr = Pending
    /\ uBack = Pending

ArIdle ==
    /\ aIn = <<>>
    /\ aOut = Pending

ValidatorIdle ==
    /\ vIn = JsUndefined
    /\ vOut = Pending

UnparsableJwk ==
    [parses |-> FALSE, syntaxError |-> "Unexpected end of JSON input",
     kty |-> "", n |-> "", e |-> ""]

NoCredentials ==
    [present |-> FALSE, walletJwk |-> UnparsableJwk, gatewayUrl |-> "",
     graphqlEndpoint |-> "", bundlrEndpoint |-> "", network |-> "",
     timeout |-> 0]

NoCall == [fn |-> "none", args |-> <<>>]

TransportIdle ==
    /\ store = NoCredentials
    /\ licenseNoticeLogged = FALSE
    /\ warnings = 0
    /\ calls = 0
    /\ call = NoCall
    /\ pc = "idle"
    /\ config = <<>>
    /\ requests = <<>>
    /\ httpOutcome = Pending
    /\ result = Pending

UtilityIdle ==
    /\ xAr = Pending
    /\ xWinston = Pending

ExecIdle ==
    /\ nodeClass = "none"
    /\ inputData = <<>>
    /\ continueOnFail = FALSE
    /\ itemIndex = 0
    /\ returnData = <<>>
    /\ issued = <<>>
    /\ causes = <<>>
    /\ xpc = "idle"
    /\ execution = Pending
    /\ executions = 0

NoUpload == [op |-> "none", body |-> Pending, sent |-> FALSE]

UploadIdle ==
    /\ upload = NoUpload

NoBatch ==
    [op |-> "none", entries |-> <<>>, sizes |-> <<>>, log |-> <<>>,
     prices |-> <<>>, total |-> <<>>, pc |-> "idle", result |-> Pending]

BatchIdle ==
    /\ batch = NoBatch

NoParams ==
    [triggerType |-> "none", limit |-> 0, tags |-> <<>>, ownerAddress |-> "",
     sizeThreshold |-> 0, contractId |-> ""]

NoData ==
    [lastProcessedId |-> "", lastHeight |-> [known |-> FALSE, height |-> 0]]

\* nothing emitted yet: the keys emitted, whether one was emitted twice, the
\* number of the last poll that succeeded, the height the first poll recorded
NoEmissions ==
    [emitted |-> {}, repeated |-> FALSE, lastGood |-> 0, base |-> 0]

TriggerIdle ==
    /\ triggerNoticeLogged = FALSE
    /\ triggerParams = NoParams
    /\ webhookData = NoData
    /\ trigger = NoPoll
    /\ polls = 0
    /\ gateway = "any"
    /\ chain = <<>>
    /\ emissions = NoEmissions

FormatIdle ==
    /\ fIn = Num(FALSE, <<>>, 0)
    /\ fOut = Pending

NoBlockTransactions ==
    [params |-> <<>>, pc |-> "idle", sent |-> <<>>, txIds |-> <<>>,
     limitedTxIds |-> <<>>, details |-> <<>>,
     block |-> [indep_hash |-> "", hasTxs |-> FALSE, txs |-> <<>>],
     result |-> Pending]

BlocksIdle ==
    /\ blockTransactions = NoBlockTransactions

\* log: the calls of fn and of sleep in the order they were made
NoRetry ==
    [maxRetries |-> 0, baseDelay |-> 0, attempt |-> 0,
     lastError |-> JsUndefined, pc |-> "idle", log |-> <<>>,
     result |-> Pending]

RetryIdle ==
    /\ retry = NoRetry
    /\ fnTrace = <<>>

NoChunking ==
    [array |-> <<>>, chunkSize |-> 0, i |-> 0, chunks |-> <<>>,
     pc |-> "idle", iterations |-> 0, beyond |-> 0]

ChunkIdle ==
    /\ chunking = NoChunking

textVars == <<cIn, cEnc, cDec>>
tagVars == <<tIn, tEnc, tDec>>
winstonVars == <<uIn, uAr, uBack>>
arVars == <<aIn, aOut>>
validatorVars == <<vIn, vOut>>
transportVars ==
    <<store, licenseNoticeLogged, warnings, calls, call, pc, config,
      requests, httpOutcome, result>>
utilityVars == <<xAr, xWinston>>
execVars == <<nodeClass, inputData, continueOnFail, itemIndex, returnData, issued, causes, xpc, execution, executions>>
uploadVars == <<upload>>
batchVars == <<batch>>
triggerVars ==
    <<triggerNoticeLogged, triggerParams, webhookData, trigger, polls,
      gateway, chain, emissions>>
formatVars == <<fIn, fOut>>
blocksVars == <<blockTransactions>>
retryVars == <<retry, fnTrace>>
chunkVars == <<chunking>>
notTextVars ==
    <<tagVars, winstonVars, arVars, validatorVars, transportVars, utilityVars, execVars, uploadVars, batchVars, triggerVars, formatVars, blocksVars, retryVars, chunkVars>>
notTagVars ==
    <<textVars, winstonVars, arVars, validatorVars, transportVars, utilityVars, execVars, uploadVars, batchVars, triggerVars, formatVars, blocksVars, retryVars, chunkVars>>
notWinstonVars ==
    <<textVars, tagVars, arVars, validatorVars, transportVars, utilityVars, execVars, uploadVars, batchVars, triggerVars, formatVars, blocksVars, retryVars, chunkVars>>
notArVars ==
    <<textVars, tagVars, winstonVars, validatorVars, transportVars, utilityVars, execVars, uploadVars, batchVars, triggerVars, formatVars, blocksVars, retryVars, chunkVars>>
notValidatorVars ==
    <<textVars, tagVars, winstonVars, arVars, transportVars, utilityVars, execVars, uploadVars, batchVars, triggerVars, formatVars, blocksVars, retryVars, chunkVars>>
notTransportVars ==
    <<textVars, tagVars, winstonVars, arVars, validatorVars, utilityVars, execVars, uploadVars, batchVars, triggerVars, formatVars, blocksVars, retryVars, chunkVars>>
notUtilityVars ==
    <<textVars, tagVars, winstonVars, arVars, validatorVars, transportVars, execVars, uploadVars, batchVars, triggerVars, formatVars, blocksVars, retryVars, chunkVars>>
notExecVars ==
    <<textVars, tagVars, winstonVars, arVars, validatorVars, transportVars, utilityVars, uploadVars, batchVars, triggerVars, formatVars, blocksVars, retryVars, chunkVars>>
notUploadVars ==
    <<textVars, tagVars, winstonVars, arVars, validatorVars, transportVars, utilityVars, execVars, batchVars, triggerVars, formatVars, blocksVars, retryVars, chunkVars>>

EncodeBase64Url ==
    /\ cEnc.st = "pending"
    /\ cEnc' = stringToBase64Url(cIn)
    /\ UNCHANGED <<cIn, cDec>>
    /\ UNCHANGED notTextVars

DecodeBase64Url ==
    /\ cEnc.st = "ok"
    /\ cDec.st = "pending"
    /\ cDec' = base64UrlToString(cEnc.val)
    /\ UNCHANGED <<cIn, cEnc>>
    /\ UNCHANGED notTextVars

CodecInit ==
    /\ cIn \in Texts
    /\ cEnc = Pending
    /\ cDec = Pending
    /\ TagsIdle
    /\ WinstonIdle
    /\ ArIdle
    /\ ValidatorIdle
    /\ TransportIdle
    /\ UtilityIdle
    /\ ExecIdle
    /\ UploadIdle
    /\ BatchIdle
    /\ TriggerIdle
    /\ FormatIdle
    /\ BlocksIdle
    /\ RetryIdle
    /\ ChunkIdle

CodecNext == EncodeBase64Url \/ DecodeBase64Url

SpecCodec == CodecInit /\ [][CodecNext]_vars

(***************************************************************************)
(* The tag codec under test: a tag list is encoded, the result decoded.    *)
(***************************************************************************)
\* '', '?>?' (Base64 'Pz4/'), '>>>' (Base64 'Pj4+'), U+00E9 U+20AC
TagTexts == {<<>>, <<63, 62, 63>>, <<62, 62, 62>>, <<233, 8364>>}

PlainTags == [name : TagTexts, value : TagTexts]

EncodeTags ==
    /\ tEnc.st = "pending"
    /\ tEnc' = encodeTags(tIn)
    /\ UNCHANGED <<tIn, tDec>>
    /\ UNCHANGED notTagVars

DecodeTags ==
    /\ tEnc.st = "ok"
    /\ tDec.st = "pending"
    /\ tDec' = decodeTags(tEnc.val)
    /\ UNCHANGED <<tIn, tEnc>>
    /\ UNCHANGED notTagVars

TagsInit ==
    /\ tIn \in SeqsUpTo(PlainTags, MaxTags)
    /\ tEnc = Pending
    /\ tDec = Pending
    /\ CodecIdle
    /\ WinstonIdle
    /\ ArIdle
    /\ ValidatorIdle
    /\ TransportIdle
    /\ UtilityIdle
    /\ ExecIdle
    /\ UploadIdle
    /\ BatchIdle
    /\ TriggerIdle
    /\ FormatIdle
    /\ BlocksIdle
    /\ RetryIdle
    /\ ChunkIdle

TagsNext == EncodeTags \/ DecodeTags

SpecTags == TagsInit /\ [][TagsNext]_vars

(***************************************************************************)
(* The unit converter under test: a Winston amount is converted to AR and  *)
(* the result back to Winston; an AR amount is converted to Winston.       *)
(***************************************************************************)
Zeros(k) == [i \in 1..k |-> Ch0]

\* whole AR amounts: none, 1, 2^13 (from where the spacing of Numbers
\* exceeds 10^-12), and 10^5 (10^17 Winston, above 2^53)
WholeArs == {0, 1, 8192, 100000}

\* Winston amounts w = whole * 10^12 + fraction, written without leading
\* zeros
WinstonInputs ==
    {IF whole = 0 THEN DecimalString(fraction)
     ELSE DecimalString(whole)
          \o PadStart(DecimalString(fraction), WinstonPerArDigits, Ch0) :
        whole \in WholeArs, fraction \in 0..MaxWinstonFraction}

WinstonToAr ==
    /\ uAr.st = "pending"
    /\ uAr' = winstonToAR(uIn)
    /\ UNCHANGED <<uIn, uBack>>
    /\ UNCHANGED notWinstonVars

ArBackToWinston ==
    /\ uAr.st = "ok"
    /\ uBack.st = "pending"
    /\ uBack' = arToWinston(uAr.val)
    /\ UNCHANGED <<uIn, uAr>>
    /\ UNCHANGED notWinstonVars

WinstonInit ==
    /\ uIn \in WinstonInputs
    /\ uAr = Pending
    /\ uBack = Pending
    /\ CodecIdle
    /\ TagsIdle
    /\ ArIdle
    /\ ValidatorIdle
    /\ TransportIdle
    /\ UtilityIdle
    /\ ExecIdle
    /\ UploadIdle
    /\ BatchIdle
    /\ TriggerIdle
    /\ FormatIdle
    /\ BlocksIdle
    /\ RetryIdle
    /\ ChunkIdle

WinstonNext == WinstonToAr \/ ArBackToWinston

SpecWinston == WinstonInit /\ [][WinstonNext]_vars

\* AR amounts: a whole part alone, or a whole part, '.', and a fraction of
\* at most WinstonPerArDigits digits (some zeros, then up to MaxFractionLen
\* digits)
ArWholeParts == {<<48>>, <<49>>, <<52>>}

DigitStrings(n) == UNION {[1..k -> Ch0..Ch9] : k \in 1..n}

ArInputs ==
    ArWholeParts
    \cup {whole \o <<ChDot>> \o Zeros(z) \o f :
            whole \in ArWholeParts,
            z \in 0..(WinstonPerArDigits - MaxFractionLen),
            f \in DigitStrings(MaxFractionLen)}

ArToWinston ==
    /\ aOut.st = "pending"
    /\ aIn # <<>>
    /\ aOut' = arToWinston(aIn)
    /\ UNCHANGED aIn
    /\ UNCHANGED notArVars

ArInit ==
    /\ aIn \in ArInputs
    /\ aOut = Pending
    /\ CodecIdle
    /\ TagsIdle
    /\ WinstonIdle
    /\ ValidatorIdle
    /\ TransportIdle
    /\ UtilityIdle
    /\ ExecIdle
    /\ UploadIdle
    /\ BatchIdle
    /\ TriggerIdle
    /\ FormatIdle
    /\ BlocksIdle
    /\ RetryIdle
    /\ ChunkIdle

ArNext == ArToWinston

SpecAr == ArInit /\ [][ArNext]_vars

(***************************************************************************)
(* The validator under test.  The inputs: null, undefined, a number, and   *)
(* strings of a length near TxIdLength (or 0, or 3) made of valid          *)
(* characters, one of which is replaced by a probe character.              *)
(***************************************************************************)
\* valid: 'A' 'Z' 'a' 'z' '0' '9' '-' '_'; invalid: the neighbours of the
\* ranges '@' '[' '`' '{' '/' ':', and '+' '=' '!' ' ' '\n' ',' '.' U+00E9
ProbeChars ==
    {65, 90, 97, 122, 48, 57, ChMinus, ChUnderscore,
     64, 91, 96, 123, ChSlash, 58, ChPlus, ChEquals, 33, 32, 10, 44, ChDot, 233}

\* the i-th filler character: cycles through 'A'-'Z', 'a'-'z', '0'-'9'
Filler(i) == Base64Map[(i * 7) % 62]

TxIdLengths ==
    {0, 3} \cup ((TxIdLength - MaxLengthDelta)..(TxIdLength + MaxLengthDelta))

TxIdStrings ==
    {[i \in 1..len |-> IF i = at THEN c ELSE Filler(i)] :
        len \in TxIdLengths, at \in 0..(TxIdLength + MaxLengthDelta),
        c \in ProbeChars}

TxIdInputs ==
    {JsNull, JsUndefined, JsNumber(0), JsNumber(43)}
    \cup {JsString(str) : str \in TxIdStrings}

IsValidTransactionId ==
    /\ vOut.st = "pending"
    /\ vOut' = isValidTransactionId(vIn)
    /\ UNCHANGED vIn
    /\ UNCHANGED notValidatorVars

ValidatorInit ==
    /\ vIn \in TxIdInputs
    /\ vOut = Pending
    /\ CodecIdle
    /\ TagsIdle
    /\ WinstonIdle
    /\ ArIdle
    /\ TransportIdle
    /\ UtilityIdle
    /\ ExecIdle
    /\ UploadIdle
    /\ BatchIdle
    /\ TriggerIdle
    /\ FormatIdle
    /\ BlocksIdle
    /\ RetryIdle
    /\ ChunkIdle

ValidatorNext == IsValidTransactionId

SpecValidator == ValidatorInit /\ [][ValidatorNext]_vars

(***************************************************************************)
(* The transport under test: up to MaxCalls calls, one after the other,    *)
(* against one credential store and an HTTP client that answers or fails.  *)
(***************************************************************************)
WalletJwks ==
    {UnparsableJwk,
     [parses |-> TRUE, syntaxError |-> "", kty |-> "RSA", n |-> "", e |-> "AQAB"],
     [parses |-> TRUE, syntaxError |-> "", kty |-> "RSA", n |-> "0vx7", e |-> "AQAB"]}

CredentialStores ==
    {NoCredentials} \cup
    {[present |-> TRUE, walletJwk |-> w, gatewayUrl |-> g,
      graphqlEndpoint |-> q, bundlrEndpoint |-> "", network |-> "",
      timeout |-> t] :
        w \in WalletJwks,
        g \in {"", "http://localhost:1984"},
        q \in {"", "http://localhost:1984/graphql"},
        t \in {0, 5000}}

Calls ==
    {[fn |-> "arweaveApiRequest",
      args |-> [method |-> "GET", endpoint |-> "/info", body |-> JsUndefined,
                qs |-> JsUndefined, headers |-> JsUndefined]],
     [fn |-> "arweaveApiRequest",
      args |-> [method |-> "GET", endpoint |-> "/tx/pending", body |-> JsNull,
                qs |-> JsObject([limit |-> "1"]), headers |-> JsUndefined]],
     [fn |-> "arweaveApiRequest",
      args |-> [method |-> "POST", endpoint |-> "/tx",
                body |-> JsObject([id |-> "tx1"]), qs |-> JsObject(<<>>),
                headers |-> JsObject([Accept |-> "text/plain"])]],
     [fn |-> "graphqlRequest",
      args |-> [query |-> "query { transactions }", variables |-> JsUndefined]],
     [fn |-> "graphqlRequest",
      args |-> [query |-> "query { blocks }",
                variables |-> JsObject([first |-> 10])]],
     [fn |-> "getTransactionData", args |-> [txId |-> "tx1", decode |-> FALSE]],
     [fn |-> "getTransactionData", args |-> [txId |-> "tx1", decode |-> TRUE]],
     [fn |-> "getRawData", args |-> [txId |-> "tx1"]]}

\* the ways the HTTP client fails
ConnectionFailure == JsError("Error", "connect ECONNREFUSED 127.0.0.1:1984")
TimeoutFailure == JsError("Error", "timeout exceeded")
StatusFailure == JsError("Error", "Request failed with status code 404")
HttpFailures ==
    {ConnectionFailure, TimeoutFailure, StatusFailure, JsError("Error", "")}

RestResponses == {JsNull, JsString("OK"), JsObject([height |-> 1])}

ErrorMessages == {"", "not found", "bad, query"}

GraphqlResponses ==
    {JsNull} \cup
    {JsObject([data |-> d, errors |-> e]) :
        d \in {JsUndefined, JsNull, JsObject([transactions |-> "edges"])},
        e \in {JsUndefined} \cup
              {JsArray(list) :
                 list \in SeqsUpTo({[message |-> m] : m \in ErrorMessages},
                                   MaxErrors)}}

DataResponses ==
    {JsString("hello"), ArrayBuffer(<<104, 105>>)}

RawResponses ==
    {JsNull, ArrayBuffer(<<>>), ArrayBuffer(<<104, 105>>)}

HttpOutcomes(responses) ==
    {Ok(r) : r \in responses} \cup {Throw(f) : f \in HttpFailures}

\* a transport function is called
Invoke ==
    /\ pc \in {"idle", "done"}
    /\ calls < MaxCalls
    /\ \E c \in Calls : call' = c
    /\ calls' = calls + 1
    /\ pc' = "credentials"
    /\ config' = <<>>
    /\ requests' = <<>>
    /\ httpOutcome' = Pending
    /\ result' = Pending
    /\ UNCHANGED <<store, licenseNoticeLogged, warnings>>
    /\ UNCHANGED notTransportVars

\* await getCredentials(context), logLicenseNotice() included
GetCredentials ==
    /\ pc = "credentials"
    /\ licenseNoticeLogged' = TRUE
    /\ warnings' = IF licenseNoticeLogged THEN warnings ELSE warnings + 1
    /\ LET resolved == getCredentials(store) IN
         IF resolved.st = "throw"
         THEN /\ result' = resolved
              /\ pc' = "done"
              /\ UNCHANGED config
         ELSE /\ config' = resolved.val
              /\ pc' = "request"
              /\ UNCHANGED result
    /\ UNCHANGED <<store, calls, call, requests, httpOutcome>>
    /\ UNCHANGED notTransportVars

RequestOptions ==
    CASE call.fn = "arweaveApiRequest" ->
           arweaveApiRequestOptions(config, call.args)
      [] call.fn = "graphqlRequest" ->
           graphqlRequestOptions(config, call.args)
      [] call.fn = "getTransactionData" ->
           getTransactionDataOptions(config, call.args)
      [] call.fn = "getRawData" ->
           getRawDataOptions(config, call.args)

\* context.helpers.httpRequest(options) is called
HttpRequest ==
    /\ pc = "request"
    /\ requests' = Append(requests, RequestOptions)
    /\ pc' = "await"
    /\ UNCHANGED <<store, licenseNoticeLogged, warnings, calls, call,
                   config, httpOutcome, result>>
    /\ UNCHANGED notTransportVars

\* the request settles as s and the function goes on to step
Settle(s, step) ==
    /\ httpOutcome' = s
    /\ pc' = step.pc
    /\ result' = step.result
    /\ UNCHANGED <<store, licenseNoticeLogged, warnings, calls, call,
                   config, requests>>
    /\ UNCHANGED notTransportVars

ArweaveApiRequest ==
    /\ pc = "await"
    /\ call.fn = "arweaveApiRequest"
    /\ \E s \in HttpOutcomes(RestResponses) :
         Settle(s, arweaveApiRequestSettled(s))

GraphqlRequest ==
    /\ pc = "await"
    /\ call.fn = "graphqlRequest"
    /\ \E s \in HttpOutcomes(GraphqlResponses) :
         Settle(s, graphqlRequestSettled(s))

GetTransactionData ==
    /\ pc = "await"
    /\ call.fn = "getTransactionData"
    /\ \E s \in HttpOutcomes(DataResponses) :
         Settle(s, getTransactionDataSettled(s))

GetRawData ==
    /\ pc = "await"
    /\ call.fn = "getRawData"
    /\ \E s \in HttpOutcomes(RawResponses) :
         Settle(s, getRawDataSettled(s))

TransportInit ==
    /\ store \in CredentialStores
    /\ licenseNoticeLogged = FALSE
    /\ warnings = 0
    /\ calls = 0
    /\ call = NoCall
    /\ pc = "idle"
    /\ config = <<>>
    /\ requests = <<>>
    /\ httpOutcome = Pending
    /\ result = Pending
    /\ CodecIdle
    /\ TagsIdle
    /\ WinstonIdle
    /\ ArIdle
    /\ ValidatorIdle
    /\ UtilityIdle
    /\ ExecIdle
    /\ UploadIdle
    /\ BatchIdle
    /\ TriggerIdle
    /\ FormatIdle
    /\ BlocksIdle
    /\ RetryIdle
    /\ ChunkIdle

TransportNext ==
    \/ Invoke
    \/ GetCredentials
    \/ HttpRequest
    \/ ArweaveApiRequest
    \/ GraphqlRequest
    \/ GetTransactionData
    \/ GetRawData

SpecTransport == TransportInit /\ [][TransportNext]_vars

(***************************************************************************)
(* The conversions on arbitrary amount strings: every string of up to      *)
(* MaxAmountLen characters over '-', '.', '0', '1', '7' and 'a' is handed  *)
(* to both helpers and to both utility operations.  (White space, '+',     *)
(* exponents and radix prefixes are not among the inputs.)                 *)
(***************************************************************************)
AmountAlphabet == {ChMinus, ChDot, Ch0, 49, 55, 97}

AmountStrings == SeqsUpTo(AmountAlphabet, MaxAmountLen)

\* arToWinston(aIn), the empty string included
ArToWinstonAny ==
    /\ aOut.st = "pending"
    /\ aOut' = arToWinston(aIn)
    /\ UNCHANGED aIn
    /\ UNCHANGED notArVars

UtilityWinstonToAR ==
    /\ xAr.st = "pending"
    /\ xAr' = utilityWinstonToAR(uIn)
    /\ UNCHANGED xWinston
    /\ UNCHANGED notUtilityVars

UtilityArToWinston ==
    /\ xWinston.st = "pending"
    /\ xWinston' = utilityArToWinston(aIn)
    /\ UNCHANGED xAr
    /\ UNCHANGED notUtilityVars

AmountsInit ==
    /\ uIn \in AmountStrings
    /\ aIn = uIn
    /\ uAr = Pending
    /\ uBack = Pending
    /\ aOut = Pending
    /\ xAr = Pending
    /\ xWinston = Pending
    /\ CodecIdle
    /\ TagsIdle
    /\ ValidatorIdle
    /\ TransportIdle
    /\ ExecIdle
    /\ UploadIdle
    /\ BatchIdle
    /\ TriggerIdle
    /\ FormatIdle
    /\ BlocksIdle
    /\ RetryIdle
    /\ ChunkIdle

AmountsNext ==
    \/ WinstonToAr
    \/ ArToWinstonAny
    \/ UtilityWinstonToAR
    \/ UtilityArToWinston

SpecAmounts == AmountsInit /\ [][AmountsNext]_vars

(***************************************************************************)
(* The decoders on arbitrary input: either one string of up to             *)
(* MaxEncodedLen characters, or a list of up to MaxTags tags, is handed to *)
(* them as it came from a gateway.                                         *)
(***************************************************************************)
\* 'A' 'Q' 'w' '4' of the alphabet, '-' '_', the padding '=', and '!'
EncodedAlphabet == {65, 81, 119, 52, ChMinus, ChUnderscore, ChEquals, 33}

EncodedStrings == SeqsUpTo(EncodedAlphabet, MaxEncodedLen)

\* '', 'QQ' (the text 'A'), '_w' (the byte FF), 'w6k' (U+00E9), '!Q=='
EncodedTagStrings ==
    {<<>>, <<81, 81>>, <<ChUnderscore, 119>>, <<119, 54, 107>>,
     <<33, 81, ChEquals, ChEquals>>}

EncodedTags ==
    SeqsUpTo([name : EncodedTagStrings, value : EncodedTagStrings], MaxTags)

DecodeInit ==
    /\ cIn = <<>>
    /\ tIn = <<>>
    /\ cDec = Pending
    /\ tDec = Pending
    /\ \/ /\ cEnc \in {Ok(str) : str \in EncodedStrings}
          /\ tEnc = Ok(<<>>)
       \/ /\ cEnc = Ok(<<>>)
          /\ tEnc \in {Ok(tags) : tags \in EncodedTags}
    /\ WinstonIdle
    /\ ArIdle
    /\ ValidatorIdle
    /\ TransportIdle
    /\ UtilityIdle
    /\ ExecIdle
    /\ UploadIdle
    /\ BatchIdle
    /\ TriggerIdle
    /\ FormatIdle
    /\ BlocksIdle
    /\ RetryIdle
    /\ ChunkIdle

DecodeNext == DecodeBase64Url \/ DecodeTags

SpecDecode == DecodeInit /\ [][DecodeNext]_vars

(***************************************************************************)
(* The nodes under test: executions follow one another, each of one class  *)
(* on up to MaxItems items; every request is answered or fails.            *)
(***************************************************************************)
\* 43 times 'A', and the same with '!' for its last character
ValidId == [i \in 1..TxIdLength |-> 65]
InvalidId == [i \in 1..TxIdLength |-> IF i = TxIdLength THEN 33 ELSE 65]

Item(resource, operation, transactionId) ==
    [resource |-> resource, operation |-> operation,
     transactionId |-> transactionId]

ActionItems ==
    {Item("transactions", "getTransactionStatus", ValidId),
     Item("transactions", "getTransactionStatus", InvalidId),
     Item("transactions", "getPendingTransactions", <<>>),
     Item("transactions", "frobnicate", <<>>),
     Item("nothing", "getTransactionStatus", ValidId)}

\* the items handed to one handler share the first item's resource and
\* operation
HandlerChoices ==
    {<<"transaction", "getTransactionStatus">>,
     <<"transaction", "getTransactionAnchor">>,
     <<"transaction", "frobnicate">>,
     <<"graphQLQuery", "getSchema">>,
     <<"graphQLQuery", "frobnicate">>,
     <<"block", "getCurrentBlock">>,
     <<"block", "frobnicate">>,
     <<"nothing", "getSchema">>}

HandlerItems(choice) ==
    {Item(choice[1], choice[2], id) :
        id \in IF choice[2] = "getTransactionStatus"
               THEN {ValidId, InvalidId} ELSE {<<>>}}

InputsOf(class) ==
    IF class = "actions"
    THEN SeqsUpTo(ActionItems, MaxItems) \ {<<>>}
    ELSE UNION {SeqsUpTo(HandlerItems(choice), MaxItems) \ {<<>>} :
                   choice \in HandlerChoices}

ExecStores ==
    {NoCredentials,
     [present |-> TRUE,
      walletJwk |-> [parses |-> TRUE, syntaxError |-> "", kty |-> "RSA",
                     n |-> "0vx7", e |-> "AQAB"],
      gatewayUrl |-> "http://localhost:1984", graphqlEndpoint |-> "",
      bundlrEndpoint |-> "", network |-> "", timeout |-> 0]}

CodedFailure == [name |-> "Error", message |-> "Not Found", httpCode |-> "404"]

ExecFailures == {TimeoutFailure, JsError("Error", ""), CodedFailure}

GatewayAnswers(operation) ==
    CASE operation = "getTransactionStatus" ->
           {JsObject([number_of_confirmations |-> 3])}
      [] operation = "getPendingTransactions" -> {JsArray(<<"tx1">>)}
      [] OTHER -> {JsObject([height |-> 1])}

GatewayOutcomes(operation) ==
    {Ok(r) : r \in GatewayAnswers(operation)} \cup
    {Throw(f) : f \in ExecFailures}

\* everything outside the nodes, the console and the notice flag
notNodeVars ==
    <<textVars, tagVars, winstonVars, arVars, validatorVars, utilityVars, uploadVars, store, calls, call, pc, config, requests, httpOutcome, result, batchVars, triggerVars, formatVars, blocksVars, retryVars, chunkVars>>
notBatchVars ==
    <<textVars, tagVars, winstonVars, arVars, validatorVars, transportVars, utilityVars, execVars, uploadVars, triggerVars, formatVars, blocksVars, retryVars, chunkVars>>

\* n8n calls execute: Arweave.execute (part_004) switches on the first
\* item's resource before any item is looked at
Execute ==
    /\ xpc \in {"idle", "done"}
    /\ executions < MaxExecutions
    /\ executions' = executions + 1
    /\ \E class \in {"actions", "handlers"} :
         /\ nodeClass' = class
         /\ \E data \in InputsOf(class) :
              /\ inputData' = data
              /\ IF class = "handlers" /\ data[1].resource \notin HandlerResources
                 THEN /\ xpc' = "done"
                      /\ execution' =
                           Throw(NodeOperationError(
                               "The resource \"" \o data[1].resource
                               \o "\" is not supported"))
                 ELSE /\ xpc' = "item"
                      /\ execution' = Pending
    /\ continueOnFail' \in BOOLEAN
    /\ itemIndex' = 0
    /\ returnData' = <<>>
    /\ issued' = <<>>
    /\ causes' = <<>>
    /\ UNCHANGED <<licenseNoticeLogged, warnings>>
    /\ UNCHANGED notNodeVars

\* the item at itemIndex is over: handled is Ok(its records) or the error
\* its catch block gets, cause what made it fail
ItemEnds(handled, cause) ==
    LET resource == inputData[1].resource
        operation == inputData[1].operation
        record == IF nodeClass = "actions"
                  THEN ArweaveExecuteCatch(handled.val, itemIndex)
                  ELSE HandlerCatchRecord(resource, operation, handled.val,
                                          itemIndex)
        rethrown == IF nodeClass = "actions" THEN handled.val
                    ELSE HandlerCatchThrow(resource, handled.val)
        pushed == IF handled.st = "throw" THEN Append(returnData, record)
                  ELSE returnData \o handled.val
    IN  /\ causes' = Append(causes, cause)
        /\ IF handled.st = "throw" /\ ~continueOnFail
           THEN /\ execution' = Throw(rethrown)
                /\ xpc' = "done"
                /\ UNCHANGED <<returnData, itemIndex>>
           ELSE /\ returnData' = pushed
                /\ itemIndex' = itemIndex + 1
                /\ IF itemIndex + 1 < Len(inputData)
                   THEN xpc' = "item" /\ UNCHANGED execution
                   ELSE xpc' = "done" /\ execution' = Ok(pushed)

\* the loop takes the next item, up to its request or its failure
ProcessItem ==
    /\ xpc = "item"
    /\ LET params == inputData[itemIndex + 1]
           started == IF nodeClass = "actions"
                      THEN ArweaveExecuteStart(store, params)
                      ELSE HandlerStart(inputData[1].resource, store,
                                        inputData[1].operation, params)
           noticed == "notice" \in DOMAIN started
       IN  /\ licenseNoticeLogged' = (licenseNoticeLogged \/ noticed)
           /\ warnings' = IF noticed /\ ~licenseNoticeLogged
                          THEN warnings + 1 ELSE warnings
           /\ IF started.st = "await"
              THEN /\ issued' = Append(issued, [item |-> itemIndex,
                                                options |-> started.val])
                   /\ xpc' = "await"
                   /\ UNCHANGED <<returnData, causes, itemIndex, execution>>
              ELSE /\ ItemEnds(Throw(started.val), Throw(started.val))
                   /\ UNCHANGED issued
    /\ UNCHANGED <<nodeClass, inputData, continueOnFail, executions>>
    /\ UNCHANGED notNodeVars

\* the item's request settles
SettleItem ==
    /\ xpc = "await"
    /\ LET params == inputData[itemIndex + 1]
           operation == IF nodeClass = "actions" THEN params.operation
                        ELSE inputData[1].operation
       IN  \E settled \in GatewayOutcomes(operation) :
             ItemEnds(IF nodeClass = "actions"
                      THEN ArweaveExecuteSettled(params, settled)
                      ELSE HandlerSettled(settled, itemIndex),
                      IF settled.st = "throw" THEN settled ELSE Ok(<<>>))
    /\ UNCHANGED <<nodeClass, inputData, continueOnFail, issued, executions,
                   licenseNoticeLogged, warnings>>
    /\ UNCHANGED notNodeVars

ExecInit ==
    /\ store \in ExecStores
    /\ licenseNoticeLogged = FALSE
    /\ warnings = 0
    /\ calls = 0
    /\ call = NoCall
    /\ pc = "idle"
    /\ config = <<>>
    /\ requests = <<>>
    /\ httpOutcome = Pending
    /\ result = Pending
    /\ CodecIdle
    /\ TagsIdle
    /\ WinstonIdle
    /\ ArIdle
    /\ ValidatorIdle
    /\ UtilityIdle
    /\ ExecIdle
    /\ UploadIdle
    /\ BatchIdle
    /\ TriggerIdle
    /\ FormatIdle
    /\ BlocksIdle
    /\ RetryIdle
    /\ ChunkIdle

ExecNext == Execute \/ ProcessItem \/ SettleItem

SpecExecute == ExecInit /\ [][ExecNext]_vars

(***************************************************************************)
(* The upload operations under test: one of them runs on up to MaxTags     *)
(* tags.                                                                   *)
(***************************************************************************)
PriceOutcomes == {Ok("1000"), Throw(TimeoutFailure)}

UploadData ==
    /\ upload.op = "none"
    /\ \E settled \in PriceOutcomes :
         upload' = [op |-> "uploadData",
                    body |-> uploadData(store, tIn, Units("text/plain"), settled),
                    sent |-> FALSE]
    /\ UNCHANGED notUploadVars

CreateDataItem ==
    /\ upload.op = "none"
    /\ upload' = [op |-> "createDataItem",
                  body |-> createDataItem(store, tIn, Units("text/plain")),
                  sent |-> FALSE]
    /\ UNCHANGED notUploadVars

\* part_004: the body is built, then the request options read
\* credentials.baseUrl, which fails on null credentials
HandlerUploadData ==
    /\ upload.op = "none"
    /\ upload' = [op |-> "data.uploadData",
                  body |-> Ok(HandlerUploadDataBody(tIn)),
                  sent |-> store.present]
    /\ UNCHANGED notUploadVars

UploadInit ==
    /\ tIn \in SeqsUpTo(PlainTags, MaxTags)
    /\ tEnc = Pending
    /\ tDec = Pending
    /\ store \in ExecStores
    /\ licenseNoticeLogged = FALSE
    /\ warnings = 0
    /\ calls = 0
    /\ call = NoCall
    /\ pc = "idle"
    /\ config = <<>>
    /\ requests = <<>>
    /\ httpOutcome = Pending
    /\ result = Pending
    /\ CodecIdle
    /\ WinstonIdle
    /\ ArIdle
    /\ ValidatorIdle
    /\ UtilityIdle
    /\ ExecIdle
    /\ UploadIdle
    /\ BatchIdle
    /\ TriggerIdle
    /\ FormatIdle
    /\ BlocksIdle
    /\ RetryIdle
    /\ ChunkIdle

UploadNext == UploadData \/ CreateDataItem \/ HandlerUploadData

SpecUpload == UploadInit /\ [][UploadNext]_vars

(***************************************************************************)
(* The batch pricing under test: one operation on up to MaxBatch entries;  *)
(* every price request is answered or fails.  The log holds the requests   *)
(* and the responses in the order they happen.                             *)
(***************************************************************************)
\* '5', ' 12', 'x' and '-1' as parts of fileSizes; '' and 'AB' as data
BatchEntries(op) ==
    IF op = "estimateUploadCost"
    THEN {<<53>>, <<ChSpace, 49, 50>>, <<120>>, <<ChMinus, 49>>}
    ELSE {<<>>, <<65, 66>>}

\* '7', 2^53 + 1 and '1.5'
PriceTexts ==
    {<<55>>,
     <<57, 48, 48, 55, 49, 57, 57, 50, 53, 52, 55, 52, 48, 57, 57, 51>>,
     <<49, ChDot, 53>>}

PriceSettlements ==
    {Ok(price) : price \in PriceTexts} \cup {Throw(TimeoutFailure)}

notBatchNoticeVars ==
    <<textVars, tagVars, winstonVars, arVars, validatorVars, utilityVars, execVars, uploadVars, store, calls, call, pc, config, requests, httpOutcome, result, triggerVars, formatVars, blocksVars, retryVars, chunkVars>>
notTriggerVars ==
    <<textVars, tagVars, winstonVars, arVars, validatorVars, transportVars, utilityVars, execVars, uploadVars, batchVars, formatVars, blocksVars, retryVars, chunkVars>>

\* the loop asks for the price of size k, or is through
BatchAsks(b, k) ==
    IF k > Len(b.sizes)
    THEN [b EXCEPT !.pc = "done",
                   !.result = Ok(BatchRecord(b.op, b.sizes, b.total))]
    ELSE LET started == getPriceStart(store, b.sizes[k])
         IN  IF started.st = "throw"
             THEN [b EXCEPT !.pc = "done",
                            !.result = Throw(executeDataUploadOperationCatch(
                                                 started.val))]
             ELSE [b EXCEPT !.pc = "await",
                            !.log = Append(@, [kind |-> "request", item |-> k,
                                               options |-> started.val])]

\* the operation is called and runs up to its first price request
BatchBegin ==
    /\ batch.pc = "idle"
    /\ \E op \in {"estimateUploadCost", "batchUpload"} :
         \E entries \in SeqsUpTo(BatchEntries(op), MaxBatch) \ {<<>>} :
           LET sizes == BatchSizes(op, store, entries)
               called == [batch EXCEPT !.op = op, !.entries = entries]
               noticed == op = "batchUpload" \/ sizes.st = "ok"
           IN  /\ batch' = IF sizes.st = "throw"
                           THEN [called EXCEPT
                                   !.pc = "done",
                                   !.result = Throw(
                                       executeDataUploadOperationCatch(
                                           sizes.val))]
                           ELSE BatchAsks([called EXCEPT !.sizes = sizes.val], 1)
               /\ licenseNoticeLogged' = (licenseNoticeLogged \/ noticed)
               /\ warnings' = IF noticed /\ ~licenseNoticeLogged
                              THEN warnings + 1 ELSE warnings
    /\ UNCHANGED notBatchNoticeVars

\* a price request settles; the price is added and the loop goes on
BatchSettle ==
    /\ batch.pc = "await"
    /\ \E settled \in PriceSettlements :
         LET logged == [batch EXCEPT
                          !.log = Append(@, [kind |-> "response",
                                             item |-> Len(batch.prices) + 1,
                                             outcome |-> settled])]
         IN  IF settled.st = "throw"
             THEN batch' = [logged EXCEPT
                              !.pc = "done",
                              !.result = Throw(executeDataUploadOperationCatch(
                                                   NodeApiError(settled.val)))]
             ELSE LET added == AddPrice(batch.total, settled.val)
                  IN  IF added.st = "throw"
                      THEN batch' = [logged EXCEPT
                                       !.pc = "done",
                                       !.result = Throw(
                                           executeDataUploadOperationCatch(
                                               added.val))]
                      ELSE batch' =
                             BatchAsks([logged EXCEPT
                                          !.prices = Append(@, settled.val),
                                          !.total = added.val],
                                       Len(batch.prices) + 2)
    /\ UNCHANGED <<licenseNoticeLogged, warnings>>
    /\ UNCHANGED notBatchNoticeVars

BatchInit ==
    /\ store \in ExecStores
    /\ licenseNoticeLogged = FALSE
    /\ warnings = 0
    /\ calls = 0
    /\ call = NoCall
    /\ pc = "idle"
    /\ config = <<>>
    /\ requests = <<>>
    /\ httpOutcome = Pending
    /\ result = Pending
    /\ CodecIdle
    /\ TagsIdle
    /\ WinstonIdle
    /\ ArIdle
    /\ ValidatorIdle
    /\ UtilityIdle
    /\ ExecIdle
    /\ UploadIdle
    /\ BatchIdle
    /\ TriggerIdle
    /\ FormatIdle
    /\ BlocksIdle
    /\ RetryIdle
    /\ ChunkIdle

BatchNext == BatchBegin \/ BatchSettle

SpecBatch == BatchInit /\ [][BatchNext]_vars

(***************************************************************************)
(* The trigger under test: a trigger node with fixed parameters is polled  *)
(* up to MaxPolls times, each poll running to its end before the next; the *)
(* gateway answers every request or the request fails.                     *)
(***************************************************************************)
TriggerStores ==
    {NoCredentials} \cup
    {[present |-> TRUE, walletJwk |-> w, gatewayUrl |-> g,
      graphqlEndpoint |-> "", bundlrEndpoint |-> "", network |-> "",
      timeout |-> t] :
        w \in {UnparsableJwk,
               [parses |-> TRUE, syntaxError |-> "", kty |-> "RSA",
                n |-> "0vx7", e |-> "AQAB"]},
        g \in {"", "http://localhost:1984"},
        t \in {0, 5000}}

SizeThreshold == 10

TriggerParams ==
    {[triggerType |-> type, limit |-> limit, tags |-> <<>>,
      ownerAddress |-> "", sizeThreshold |-> SizeThreshold,
      contractId |-> "contract1"] :
        type \in {"blockMined", "largeUploadDetected", "contractStateChanged",
                  "newTransactionByOwner", "newTransactionByTag", "other"},
        limit \in 1..MaxLimit}
    \cup
    {[triggerType |-> "newTransactionByTag", limit |-> limit,
      tags |-> <<[name |-> "App-Name", values |-> <<"x">>]>>,
      ownerAddress |-> "", sizeThreshold |-> SizeThreshold,
      contractId |-> "contract1"] : limit \in 1..MaxLimit}
    \cup
    {[triggerType |-> "newTransactionByOwner", limit |-> MaxLimit,
      tags |-> <<>>, ownerAddress |-> "owner1",
      sizeThreshold |-> SizeThreshold, contractId |-> "contract1"]}

\* the tag Content-Type: text/plain as a gateway returns it, and a tag
\* whose name '_w' is the byte FF
PlainTag ==
    [name |-> stringToBase64Url(Units("Content-Type")).val,
     value |-> stringToBase64Url(Units("text/plain")).val]
BinaryTag == [name |-> <<ChUnderscore, 119>>, value |-> <<>>]

\* sizes '5' and '20'
Edges ==
    {[id |-> "a", tags |-> <<>>, data |-> [present |-> TRUE, size |-> <<50, 48>>]],
     [id |-> "b", tags |-> <<PlainTag>>,
      data |-> [present |-> TRUE, size |-> <<50, 48>>]],
     [id |-> "c", tags |-> <<>>, data |-> [present |-> TRUE, size |-> <<53>>]],
     [id |-> "d", tags |-> <<BinaryTag>>,
      data |-> [present |-> FALSE, size |-> <<>>]]}

QueryAnswers ==
    {[wellFormed |-> TRUE, edges |-> edges] : edges \in SeqsUpTo(Edges, MaxEdges)}
    \cup {[wellFormed |-> FALSE, edges |-> <<>>]}

Heights == {5, 5 + MaxLimit + 1}

\* the polls that have run to their end
Served == IF trigger.pc = "await" THEN polls - 1 ELSE polls

\* the newest `first` transactions of the feed
FeedPage(first) ==
    [k \in 1..(IF Len(chain) < first THEN Len(chain) ELSE first) |->
        chain[k].edge]

\* what the gateway may answer to the request the poll waits for
PollAnswers ==
    CASE trigger.step = "query" ->
           IF gateway = "feed"
           THEN {[wellFormed |-> TRUE,
                  edges |-> FeedPage(trigger.sent[Len(trigger.sent)]
                                         .body.variables.first)]}
           ELSE QueryAnswers
      [] trigger.step = "info" ->
           {[height |-> height, current |-> "hash" \o ToString(height)] :
               height \in Heights}
      [] trigger.step = "hash" ->
           {[height |-> trigger.current, indep_hash |-> trigger.hash, txs |-> 0]}
      [] trigger.step = "height" ->
           {[height |-> trigger.h, indep_hash |-> "hash" \o ToString(trigger.h),
             txs |-> txs] : txs \in {0, 1}}
      [] OTHER -> {}

\* the key of an emitted item: the transaction id or the block height
EmittedKey(item) ==
    IF "height" \in DOMAIN item THEN ToString(item.height)
    ELSE IF "interactionId" \in DOMAIN item THEN item.interactionId
    ELSE item.id

\* the record of emissions after a poll ended as run, with static data after
Emitted(run, after) ==
    IF run.pc # "done" \/ run.result.st # "ok" THEN emissions
    ELSE LET keys == [k \in 1..Len(run.returnData) |->
                         EmittedKey(run.returnData[k])]
         IN  [emitted |-> emissions.emitted \cup {keys[k] : k \in 1..Len(keys)},
              repeated |->
                  \/ emissions.repeated
                  \/ \E k \in 1..Len(keys) : keys[k] \in emissions.emitted
                  \/ \E j, k \in 1..Len(keys) : j # k /\ keys[j] = keys[k],
              lastGood |-> polls,
              base |-> IF after.lastHeight.known
                          /\ ~webhookData.lastHeight.known
                       THEN after.lastHeight.height ELSE emissions.base]

notTriggerNoticeVars ==
    <<textVars, tagVars, winstonVars, arVars, validatorVars, utilityVars, execVars, uploadVars, batchVars, formatVars, store, licenseNoticeLogged, calls, call, pc, config, requests, httpOutcome, result, blocksVars, retryVars, chunkVars>>

notFormatVars ==
    <<textVars, tagVars, winstonVars, arVars, validatorVars, transportVars, utilityVars, execVars, uploadVars, batchVars, triggerVars, blocksVars, retryVars, chunkVars>>
notBlocksVars ==
    <<textVars, tagVars, winstonVars, arVars, validatorVars, transportVars, utilityVars, execVars, uploadVars, batchVars, triggerVars, formatVars, retryVars, chunkVars>>
notRetryVars ==
    <<textVars, tagVars, winstonVars, arVars, validatorVars, transportVars, utilityVars, execVars, uploadVars, batchVars, triggerVars, formatVars, blocksVars, chunkVars>>
notChunkVars ==
    <<textVars, tagVars, winstonVars, arVars, validatorVars, transportVars, utilityVars, execVars, uploadVars, batchVars, triggerVars, formatVars, blocksVars, retryVars>>

\* n8n calls poll: the notice, the credentials, and on to the first request
Poll ==
    /\ trigger.pc \in {"idle", "done"}
    /\ polls < MaxPolls
    /\ polls' = polls + 1
    /\ triggerNoticeLogged' = TRUE
    /\ warnings' = IF triggerNoticeLogged THEN warnings ELSE warnings + 1
    /\ trigger' = pollStart(store, triggerParams)
    /\ UNCHANGED <<triggerParams, webhookData, gateway, chain, emissions>>
    /\ UNCHANGED notTriggerNoticeVars

\* the request the poll waits for settles and the poll goes on
PollSettle ==
    /\ trigger.pc = "await"
    /\ \E settled \in {Ok(answer) : answer \in PollAnswers}
                      \cup {Throw(TimeoutFailure)} :
         LET after == pollSettled(trigger, webhookData, triggerParams, settled)
         IN  /\ trigger' = after.run
             /\ webhookData' = after.data
             /\ emissions' = Emitted(after.run, after.data)
    /\ UNCHANGED <<triggerNoticeLogged, triggerParams, polls, gateway, chain>>
    /\ UNCHANGED notTriggerVars

\* a transaction comes to the feed
Arrive ==
    /\ gateway = "feed"
    /\ Len(chain) < MaxChain
    /\ \E edge \in Edges :
         /\ \A k \in 1..Len(chain) : chain[k].edge.id # edge.id
         /\ chain' = <<[edge |-> edge, born |-> Served]>> \o chain
    /\ UNCHANGED <<triggerNoticeLogged, triggerParams, webhookData, trigger,
                   polls, gateway, emissions>>
    /\ UNCHANGED notTriggerVars

TriggerInit ==
    /\ store \in TriggerStores
    /\ gateway = "any"
    /\ chain = <<>>
    /\ emissions = NoEmissions
    /\ triggerParams \in TriggerParams
    /\ triggerNoticeLogged = FALSE
    /\ webhookData = NoData
    /\ trigger = NoPoll
    /\ polls = 0
    /\ licenseNoticeLogged = FALSE
    /\ warnings = 0
    /\ calls = 0
    /\ call = NoCall
    /\ pc = "idle"
    /\ config = <<>>
    /\ requests = <<>>
    /\ httpOutcome = Pending
    /\ result = Pending
    /\ CodecIdle
    /\ TagsIdle
    /\ WinstonIdle
    /\ ArIdle
    /\ ValidatorIdle
    /\ UtilityIdle
    /\ ExecIdle
    /\ UploadIdle
    /\ BatchIdle
    /\ FormatIdle
    /\ BlocksIdle
    /\ RetryIdle
    /\ ChunkIdle

TriggerNext == Poll \/ PollSettle

SpecTrigger == TriggerInit /\ [][TriggerNext]_vars

(***************************************************************************)
(* The trigger on a feed: the gateway holds the matching transactions      *)
(* newest first, new ones come in at the front, none is reordered or       *)
(* removed, and a query is answered with the newest `first` of them.       *)
(***************************************************************************)
FeedStores ==
    {stored \in TriggerStores :
        /\ stored.present
        /\ stored.walletJwk.parses
        /\ stored.gatewayUrl = ""
        /\ stored.timeout = 0}

FeedParams ==
    {p \in TriggerParams :
        /\ p.triggerType \in {"newTransactionByTag", "newTransactionByOwner",
                              "contractStateChanged", "largeUploadDetected"}
        /\ p.triggerType = "newTransactionByTag" => p.tags # <<>>}

FeedInit ==
    /\ store \in FeedStores
    /\ gateway = "feed"
    /\ chain = <<>>
    /\ emissions = NoEmissions
    /\ triggerParams \in FeedParams
    /\ triggerNoticeLogged = FALSE
    /\ webhookData = NoData
    /\ trigger = NoPoll
    /\ polls = 0
    /\ licenseNoticeLogged = FALSE
    /\ warnings = 0
    /\ calls = 0
    /\ call = NoCall
    /\ pc = "idle"
    /\ config = <<>>
    /\ requests = <<>>
    /\ httpOutcome = Pending
    /\ result = Pending
    /\ CodecIdle
    /\ TagsIdle
    /\ WinstonIdle
    /\ ArIdle
    /\ ValidatorIdle
    /\ UtilityIdle
    /\ ExecIdle
    /\ UploadIdle
    /\ BatchIdle
    /\ FormatIdle
    /\ BlocksIdle
    /\ RetryIdle
    /\ ChunkIdle

FeedNext == Poll \/ PollSettle \/ Arrive

SpecFeed == FeedInit /\ [][FeedNext]_vars

(***************************************************************************)
(* The trigger before a gateway that answers anything or not at all: polls *)
(* for mined blocks and for transactions by tag, at the highest limit.     *)
(***************************************************************************)
FailureParams ==
    {p \in TriggerParams :
        /\ p.limit = MaxLimit
        /\ p.triggerType \in {"blockMined", "newTransactionByTag"}
        /\ p.triggerType = "newTransactionByTag" => p.tags # <<>>}

FailureInit ==
    /\ store \in FeedStores
    /\ gateway = "any"
    /\ chain = <<>>
    /\ emissions = NoEmissions
    /\ triggerParams \in FailureParams
    /\ triggerNoticeLogged = FALSE
    /\ webhookData = NoData
    /\ trigger = NoPoll
    /\ polls = 0
    /\ licenseNoticeLogged = FALSE
    /\ warnings = 0
    /\ calls = 0
    /\ call = NoCall
    /\ pc = "idle"
    /\ config = <<>>
    /\ requests = <<>>
    /\ httpOutcome = Pending
    /\ result = Pending
    /\ CodecIdle
    /\ TagsIdle
    /\ WinstonIdle
    /\ ArIdle
    /\ ValidatorIdle
    /\ UtilityIdle
    /\ ExecIdle
    /\ UploadIdle
    /\ BatchIdle
    /\ FormatIdle
    /\ BlocksIdle
    /\ RetryIdle
    /\ ChunkIdle

FailureNext == Poll \/ PollSettle

SpecFailure == FailureInit /\ [][FailureNext]_vars

(***************************************************************************)
(* One process: transport calls of the node and polls of a trigger node,   *)
(* in any order and interleaved at their requests.                         *)
(***************************************************************************)
ProcessStores == {stored \in TriggerStores : stored.walletJwk.parses}

ProcessParams ==
    {p \in TriggerParams :
        /\ p.limit = 1
        /\ p.triggerType \in {"blockMined", "other"}}

ProcessInit ==
    /\ store \in ProcessStores
    /\ gateway = "any"
    /\ chain = <<>>
    /\ emissions = NoEmissions
    /\ triggerParams \in ProcessParams
    /\ triggerNoticeLogged = FALSE
    /\ webhookData = NoData
    /\ trigger = NoPoll
    /\ polls = 0
    /\ licenseNoticeLogged = FALSE
    /\ warnings = 0
    /\ calls = 0
    /\ call = NoCall
    /\ pc = "idle"
    /\ config = <<>>
    /\ requests = <<>>
    /\ httpOutcome = Pending
    /\ result = Pending
    /\ CodecIdle
    /\ TagsIdle
    /\ WinstonIdle
    /\ ArIdle
    /\ ValidatorIdle
    /\ UtilityIdle
    /\ ExecIdle
    /\ UploadIdle
    /\ BatchIdle
    /\ FormatIdle
    /\ BlocksIdle
    /\ RetryIdle
    /\ ChunkIdle

ProcessNext == TransportNext \/ TriggerNext

SpecProcess == ProcessInit /\ [][ProcessNext]_vars

(***************************************************************************)
(* formatFileSize under test: m * 1024^u bytes for m up to MaxMantissa and *)
(* u up to MaxUnit, and 0 bytes.                                           *)
(***************************************************************************)
FileSizes ==
    {Num(FALSE, <<>>, 0)} \cup
    {Num(FALSE, <<m>>, FileSizeLogK * u) : m \in 1..MaxMantissa, u \in 0..MaxUnit}

FormatFileSize ==
    /\ fOut.st = "pending"
    /\ fOut' = Ok(formatFileSize(fIn))
    /\ UNCHANGED fIn
    /\ UNCHANGED notFormatVars

FormatInit ==
    /\ fIn \in FileSizes
    /\ fOut = Pending
    /\ CodecIdle
    /\ TagsIdle
    /\ WinstonIdle
    /\ ArIdle
    /\ ValidatorIdle
    /\ TransportIdle
    /\ UtilityIdle
    /\ ExecIdle
    /\ UploadIdle
    /\ BatchIdle
    /\ TriggerIdle
    /\ BlocksIdle
    /\ RetryIdle
    /\ ChunkIdle

FormatNext == FormatFileSize

SpecFormat == FormatInit /\ [][FormatNext]_vars

(***************************************************************************)
(* getBlockTransactions of the blocks resource: the block by height, then  *)
(* with details one getTransaction per id, all started by the map inside   *)
(* Promise.all and each with a catch of its own.                           *)
(***************************************************************************)
DETAILS_FAILED == "Failed to fetch transaction details"

\* Array.prototype.slice(0, end): a negative end counts from the back
ArrayFirst(array, end) ==
    LET to == IF end < 0
              THEN (IF Len(array) + end < 0 THEN 0 ELSE Len(array) + end)
              ELSE (IF end > Len(array) THEN Len(array) ELSE end)
    IN  SubSeq(array, 1, to)

\* what the operation pushes to returnData
getBlockTransactionsJson(params, block, txIds, transactions) ==
    [success |-> TRUE,
     blockHeight |-> params.blockHeight,
     blockHash |-> block.indep_hash,
     transactionCount |-> Len(txIds),
     transactions |-> transactions,
     fetchedDetails |-> params.includeDetails]

\* up to the request for the block
getBlockTransactionsStart(params) ==
    IF params.blockHeight < 0
    THEN [NoBlockTransactions EXCEPT
            !.params = params, !.pc = "done",
            !.result = Throw(NodeOperationError(
                           "Block height must be non-negative"))]
    ELSE [NoBlockTransactions EXCEPT
            !.params = params, !.pc = "block",
            !.sent = <<"/block/height/" \o ToString(params.blockHeight)>>]

\* one entry of the output: the transaction under the id asked for
detailEntry(txId, tx) == [id |-> txId, owner |-> tx.owner, error |-> ""]

\* the entry of the catch
detailFailed(txId) == [id |-> txId, owner |-> "", error |-> DETAILS_FAILED]

\* a slip: the entries in the order in which the requests settled
detailsResolved_AsSettled(limitedTxIds, details) ==
    [i \in 1..Len(details) |-> details[i].entry]

\* what Promise.all resolves to: the entry of the i-th promise at place i
detailsResolved(limitedTxIds, details) ==
    [i \in 1..Len(limitedTxIds) |->
        (CHOOSE d \in {details[j] : j \in 1..Len(details)} : d.k = i).entry]

\* the block is in, or the request for it failed
getBlockTransactionsBlock(op, settled) ==
    IF settled.st = "throw"
    THEN [op EXCEPT !.pc = "done", !.result = Throw(settled.val)]
    ELSE LET block == settled.val
             txIds == IF block.hasTxs THEN block.txs ELSE <<>>
             limitedTxIds == ArrayFirst(txIds, op.params.transactionLimit)
         IN  IF ~(op.params.includeDetails /\ Len(txIds) > 0)
             THEN [op EXCEPT
                     !.pc = "done", !.txIds = txIds, !.block = block,
                     !.result = Ok(getBlockTransactionsJson(
                                       op.params, block, txIds, txIds))]
             ELSE IF limitedTxIds = <<>>
             THEN [op EXCEPT
                     !.pc = "done", !.txIds = txIds, !.block = block,
                     !.result = Ok(getBlockTransactionsJson(
                                       op.params, block, txIds, <<>>))]
             ELSE [op EXCEPT
                     !.pc = "details", !.txIds = txIds, !.block = block,
                     !.limitedTxIds = limitedTxIds,
                     !.sent = op.sent \o
                              [i \in 1..Len(limitedTxIds) |->
                                  "/tx/" \o limitedTxIds[i]]]

\* the k-th detail request settles; the last one to settle resolves
\* Promise.all and the operation returns
getBlockTransactionsDetail(op, k, settled) ==
    LET entry == IF settled.st = "throw" THEN detailFailed(op.limitedTxIds[k])
                 ELSE detailEntry(op.limitedTxIds[k], settled.val)
        details == Append(op.details,
                          [k |-> k, st |-> settled.st, entry |-> entry])
    IN  IF Len(details) < Len(op.limitedTxIds)
        THEN [op EXCEPT !.details = details]
        ELSE [op EXCEPT
                !.details = details, !.pc = "done",
                !.result = Ok(getBlockTransactionsJson(
                                  op.params, op.block, op.txIds,
                                  detailsResolved(op.limitedTxIds, details)))]

(***************************************************************************)
(* getBlockTransactions under test: blocks of up to MaxTxs transactions,   *)
(* limits from -1 to one more than that, any detail request may fail, and  *)
(* the detail requests settle in any order.                                *)
(***************************************************************************)
BlockTxIds == [i \in 1..MaxTxs |-> "tx" \o ToString(i)]

BlockParams ==
    {[blockHeight |-> blockHeight, includeDetails |-> includeDetails,
      transactionLimit |-> transactionLimit] :
        blockHeight \in {-1, 7},
        includeDetails \in BOOLEAN,
        transactionLimit \in -1..(MaxTxs + 1)}

BlockAnswers ==
    {[indep_hash |-> "hash7", hasTxs |-> TRUE, txs |-> SubSeq(BlockTxIds, 1, n)] :
        n \in 0..MaxTxs}
    \cup {[indep_hash |-> "hash7", hasTxs |-> FALSE, txs |-> <<>>]}

\* the gateway's record of a transaction: its id field is the id it was
\* stored under
DetailAnswers == {[id |-> "stored", owner |-> "owner1"]}

GetBlockTransactions ==
    /\ blockTransactions.pc = "idle"
    /\ \E params \in BlockParams :
         blockTransactions' = getBlockTransactionsStart(params)
    /\ UNCHANGED notBlocksVars

BlockSettle ==
    /\ blockTransactions.pc = "block"
    /\ \E settled \in {Ok(answer) : answer \in BlockAnswers}
                      \cup {Throw(StatusFailure)} :
         blockTransactions' = getBlockTransactionsBlock(blockTransactions, settled)
    /\ UNCHANGED notBlocksVars

DetailSettle ==
    /\ blockTransactions.pc = "details"
    /\ \E k \in 1..Len(blockTransactions.limitedTxIds) :
         /\ \A j \in 1..Len(blockTransactions.details) :
                blockTransactions.details[j].k # k
         /\ \E settled \in {Ok(answer) : answer \in DetailAnswers}
                           \cup {Throw(StatusFailure)} :
              blockTransactions' =
                  getBlockTransactionsDetail(blockTransactions, k, settled)
    /\ UNCHANGED notBlocksVars

BlocksInit ==
    /\ blockTransactions = NoBlockTransactions
    /\ CodecIdle
    /\ TagsIdle
    /\ WinstonIdle
    /\ ArIdle
    /\ ValidatorIdle
    /\ TransportIdle
    /\ UtilityIdle
    /\ ExecIdle
    /\ UploadIdle
    /\ BatchIdle
    /\ TriggerIdle
    /\ FormatIdle
    /\ RetryIdle
    /\ ChunkIdle

BlocksNext == GetBlockTransactions \/ BlockSettle \/ DetailSettle

SpecBlocks == BlocksInit /\ [][BlocksNext]_vars

(***************************************************************************)
(* retryWithBackoff: the loop calls fn, returns its value, or keeps its    *)
(* error and sleeps before the next attempt.                               *)
(***************************************************************************)
\* a slip: the exponent counted from 1
backoffDelay_FromOne(baseDelay, attempt) == baseDelay * 2^(attempt + 1)

\* baseDelay * Math.pow(2, attempt)
backoffDelay(baseDelay, attempt) == baseDelay * 2^attempt

\* the head of the for loop: call fn, or leave the loop and throw lastError
retryWithBackoffLoop(run) ==
    IF run.attempt < run.maxRetries
    THEN [run EXCEPT !.pc = "fn",
                     !.log = Append(run.log, [ev |-> "fn", delay |-> 0])]
    ELSE [run EXCEPT !.pc = "done", !.result = Throw(run.lastError)]

retryWithBackoffStart(maxRetries, baseDelay) ==
    retryWithBackoffLoop([NoRetry EXCEPT !.maxRetries = maxRetries,
                                         !.baseDelay = baseDelay])

\* fn settles: its value is returned; its error is kept, and unless this
\* was the last attempt the loop sleeps
retryWithBackoffSettled(run, settled) ==
    IF settled.st = "ok"
    THEN [run EXCEPT !.pc = "done", !.result = Ok(settled.val)]
    ELSE IF run.attempt < run.maxRetries - 1
    THEN [run EXCEPT
            !.lastError = settled.val, !.pc = "sleep",
            !.log = Append(run.log,
                           [ev |-> "sleep",
                            delay |-> backoffDelay(run.baseDelay, run.attempt)])]
    ELSE retryWithBackoffLoop([run EXCEPT !.lastError = settled.val,
                                          !.attempt = run.attempt + 1])

\* the timer of sleep fires
retryWithBackoffSlept(run) ==
    retryWithBackoffLoop([run EXCEPT !.attempt = run.attempt + 1])

(***************************************************************************)
(* retryWithBackoff under test: maxRetries from -1 to MaxRetries, fn fails *)
(* or succeeds at each call as it likes, with one of two errors.           *)
(***************************************************************************)
BaseDelays == {0, 1, 1000}

FnErrors == {JsError("Error", "first kind"), JsError("Error", "second kind")}

FnOutcomes == {Ok("value")} \cup {Throw(e) : e \in FnErrors}

RetryWithBackoff ==
    /\ retry.pc = "idle"
    /\ \E maxRetries \in -1..MaxRetries, baseDelay \in BaseDelays :
         /\ retry' = retryWithBackoffStart(maxRetries, baseDelay)
         /\ fnTrace' = <<>>
    /\ UNCHANGED notRetryVars

FnSettle ==
    /\ retry.pc = "fn"
    /\ \E settled \in FnOutcomes :
         /\ retry' = retryWithBackoffSettled(retry, settled)
         /\ fnTrace' = Append(fnTrace, settled)
    /\ UNCHANGED notRetryVars

SleepDone ==
    /\ retry.pc = "sleep"
    /\ retry' = retryWithBackoffSlept(retry)
    /\ UNCHANGED fnTrace
    /\ UNCHANGED notRetryVars

RetryInit ==
    /\ retry = NoRetry
    /\ fnTrace = <<>>
    /\ CodecIdle
    /\ TagsIdle
    /\ WinstonIdle
    /\ ArIdle
    /\ ValidatorIdle
    /\ TransportIdle
    /\ UtilityIdle
    /\ ExecIdle
    /\ UploadIdle
    /\ BatchIdle
    /\ TriggerIdle
    /\ FormatIdle
    /\ BlocksIdle
    /\ ChunkIdle

RetryNext == RetryWithBackoff \/ FnSettle \/ SleepDone

SpecRetry == RetryInit /\ [][RetryNext]_vars

(***************************************************************************)
(* chunkArray: a for loop over i from 0 in steps of chunkSize, pushing     *)
(* array.slice(i, i + chunkSize).                                          *)
(***************************************************************************)
\* a relative index of Array.prototype.slice, clamped to 0..len
SliceIndex(len, k) ==
    IF k < 0 THEN (IF len + k < 0 THEN 0 ELSE len + k)
    ELSE (IF k > len THEN len ELSE k)

\* Array.prototype.slice(start, end)
ArraySlice(array, start, end) ==
    SubSeq(array, SliceIndex(Len(array), start) + 1,
           SliceIndex(Len(array), end))

chunkArrayStart(array, chunkSize) ==
    [NoChunking EXCEPT !.array = array, !.chunkSize = chunkSize,
                       !.pc = "loop"]

\* the loop test, and one turn of the loop body with its i += chunkSize
chunkArrayStep(run) ==
    IF run.i < Len(run.array)
    THEN [run EXCEPT
            !.chunks = Append(run.chunks,
                              ArraySlice(run.array, run.i,
                                         run.i + run.chunkSize)),
            !.i = run.i + run.chunkSize,
            !.iterations = run.iterations + 1]
    ELSE [run EXCEPT !.pc = "done"]

(***************************************************************************)
(* chunkArray under test: arrays of up to MaxArrayLen elements, chunk      *)
(* sizes from -1 to one more than that.  The chunks and i are kept for the *)
(* first MaxIterations turns of the loop, twice as many as a chunk size of *)
(* 1 needs; of the turns beyond only the loop test and their parity are    *)
(* kept.                                                                   *)
(***************************************************************************)
ChunkArrays == {[k \in 1..n |-> 10 * k] : n \in 0..MaxArrayLen}

MaxIterations == 2 * MaxArrayLen

ChunkArray ==
    /\ chunking.pc = "idle"
    /\ \E array \in ChunkArrays, chunkSize \in -1..(MaxArrayLen + 1) :
         chunking' = chunkArrayStart(array, chunkSize)
    /\ UNCHANGED notChunkVars

ChunkStep ==
    /\ chunking.pc = "loop"
    /\ chunking' =
         IF chunking.iterations < MaxIterations
         THEN chunkArrayStep(chunking)
         ELSE [chunking EXCEPT !.pc = chunkArrayStep(chunking).pc,
                               !.beyond = 1 - chunking.beyond]
    /\ UNCHANGED notChunkVars

ChunkInit ==
    /\ chunking = NoChunking
    /\ CodecIdle
    /\ TagsIdle
    /\ WinstonIdle
    /\ ArIdle
    /\ ValidatorIdle
    /\ TransportIdle
    /\ UtilityIdle
    /\ ExecIdle
    /\ UploadIdle
    /\ BatchIdle
    /\ TriggerIdle
    /\ FormatIdle
    /\ BlocksIdle
    /\ RetryIdle

ChunkNext == ChunkArray \/ ChunkStep

\* the loop is synchronous: once called it runs on
SpecChunk == ChunkInit /\ [][ChunkNext]_vars /\ WF_vars(ChunkNext)

(***************************************************************************)
(* Reference definitions for the codec claims: UTF-8 (RFC 3629) and        *)
(* Base64 (RFC 4648) written from the standards, as bit streams.           *)
(***************************************************************************)
RECURSIVE RefCodePoints(_)
RefCodePoints(s) ==
    IF s = <<>> THEN <<>>
    ELSE IF IsHighSurrogate(s[1])
        THEN <<65536 + ((s[1] - 55296) * 1024) + (s[2] - 56320)>>
             \o RefCodePoints(SubSeq(s, 3, Len(s)))
    ELSE <<s[1]>> \o RefCodePoints(Tail(s))

\* bit j (0 = most significant) of the w-bit number v
BitOf(v, w, j) == (v \div (2 ^ (w - 1 - j))) % 2

\* RFC 3629: 0xxxxxxx | 110xxxxx 10xxxxxx | 1110xxxx 10xxxxxx 10xxxxxx |
\* 11110xxx 10xxxxxx 10xxxxxx 10xxxxxx, the x being the code point's bits
RefUtf8Of(v) ==
    LET n == IF v <= 127 THEN 1 ELSE IF v <= 2047 THEN 2
             ELSE IF v <= 65535 THEN 3 ELSE 4
        lead == IF n = 1 THEN 0 ELSE IF n = 2 THEN 192
                ELSE IF n = 3 THEN 224 ELSE 240
    IN  [k \in 1..n |->
            IF k = 1 THEN lead + (v \div (2 ^ (6 * (n - 1))))
            ELSE 128 + ((v \div (2 ^ (6 * (n - k)))) % 64)]

RECURSIVE RefFlatten(_)
RefFlatten(qs) == IF qs = <<>> THEN <<>> ELSE Head(qs) \o RefFlatten(Tail(qs))

RefUtf8(s) ==
    LET cps == RefCodePoints(s)
    IN  RefFlatten([i \in 1..Len(cps) |-> RefUtf8Of(cps[i])])

\* 'A'..'Z', 'a'..'z', '0'..'9', '+', '/'
RefAlphabet ==
    <<65, 66, 67, 68, 69, 70, 71, 72, 73, 74, 75, 76, 77, 78, 79, 80, 81, 82,
      83, 84, 85, 86, 87, 88, 89, 90,
      97, 98, 99, 100, 101, 102, 103, 104, 105, 106, 107, 108, 109, 110, 111,
      112, 113, 114, 115, 116, 117, 118, 119, 120, 121, 122,
      48, 49, 50, 51, 52, 53, 54, 55, 56, 57, 43, 47>>

\* RFC 4648: the octets as one bit stream, cut into 6-bit groups (the last
\* one filled with zero bits), then '=' up to a multiple of four characters
RefBase64(bytes) ==
    LET n == Len(bytes)
        bit(p) == IF p \div 8 < n THEN BitOf(bytes[(p \div 8) + 1], 8, p % 8)
                  ELSE 0
        sextet(k) == (32 * bit(6 * k)) + (16 * bit((6 * k) + 1))
                     + (8 * bit((6 * k) + 2)) + (4 * bit((6 * k) + 3))
                     + (2 * bit((6 * k) + 4)) + bit((6 * k) + 5)
        chars == ((8 * n) + 5) \div 6
        padded == 4 * ((n + 2) \div 3)
    IN  [k \in 1..padded |->
            IF k <= chars THEN RefAlphabet[sextet(k - 1) + 1] ELSE 61]

\* '+' -> '-', '/' -> '_', '=' removed
RefUrlSafe(b64) ==
    LET kept == SelectSeq(b64, LAMBDA c : c # 61)
    IN  [k \in 1..Len(kept) |->
            IF kept[k] = 43 THEN 45 ELSE IF kept[k] = 47 THEN 95 ELSE kept[k]]

Contains(s, c) == \E i \in 1..Len(s) : s[i] = c

(***************************************************************************)
(* C1: for every string s of valid Unicode text,                           *)
(* decodeBase64Url(encodeBase64Url(s)) returns s unchanged, including the  *)
(* empty string and strings that contain '+', '/' and '='.                 *)
(***************************************************************************)
C1_RoundTrip ==
    /\ cEnc.st \in {"pending", "ok"}
    /\ cDec.st # "pending" => cDec.st = "ok" /\ cDec.val = cIn

C1_Witness ==
    /\ cDec.st = "ok"
    /\ cIn = <<ChPlus, ChSlash, ChEquals>>

(***************************************************************************)
(* C6: for every list T of tags with plain-text names and values,          *)
(* decodeTags(encodeTags(T)) is structurally equal to T (same length, same *)
(* order, same name and value at each position); the empty list maps to    *)
(* the empty list in both directions.                                      *)
(***************************************************************************)
C6_TagRoundTrip ==
    /\ tEnc.st \in {"pending", "ok"}
    /\ tEnc.st = "ok" => Len(tEnc.val) = Len(tIn)
    /\ (tEnc.st = "ok" /\ tIn = <<>>) => tEnc.val = <<>>
    /\ tDec.st # "pending" => tDec.st = "ok" /\ tDec.val = tIn

C6_Witness ==
    /\ tDec.st = "ok"
    /\ Len(tIn) = 2
    /\ tIn[1] # tIn[2]
    /\ tIn[1].name # tIn[1].value

(***************************************************************************)
(* C7: encodeBase64Url(s) equals the standard Base64 encoding of the UTF-8 *)
(* bytes of s in which every '+' is replaced by '-', every '/' by '_' and  *)
(* every '=' is removed; its output never contains '+', '/' or '='.        *)
(***************************************************************************)
C7_EncodeIsUrlSafeBase64 ==
    cEnc.st # "pending" =>
        /\ cEnc.st = "ok"
        /\ cEnc.val = RefUrlSafe(RefBase64(RefUtf8(cIn)))
        /\ ~Contains(cEnc.val, 43)
        /\ ~Contains(cEnc.val, 47)
        /\ ~Contains(cEnc.val, 61)

\* '>>?' encodes to 'Pj4_' and U+00E9 alone to 'w6k' (padding removed)
C7_Witness ==
    /\ cEnc.st = "ok"
    /\ Contains(cEnc.val, ChUnderscore)
    /\ Contains(cIn, 233)
    /\ Len(cEnc.val) % 4 # 0

(***************************************************************************)
(* Reference definitions for the unit claims, on the digit strings: no     *)
(* arithmetic is involved in moving the decimal point by 12 places.        *)
(***************************************************************************)
RECURSIVE StripLeadingZeros(_)
StripLeadingZeros(str) ==
    IF Len(str) > 1 /\ str[1] = Ch0 THEN StripLeadingZeros(Tail(str)) ELSE str

\* w / 10^12 with exactly 12 fractional digits
RefWinstonToAr(w) ==
    LET padded == PadStart(w, 13, Ch0)
        k == Len(padded) - 12
    IN  SubSeq(padded, 1, k) \o <<ChDot>> \o SubSeq(padded, k + 1, Len(padded))

\* floor(ar * 10^12) for ar with at most 12 fractional digits
RefArToWinston(ar) ==
    LET dotAt == IndexOf(ar, ChDot) + 1
        whole == IF dotAt = 0 THEN ar ELSE SubSeq(ar, 1, dotAt - 1)
        fraction == IF dotAt = 0 THEN <<>> ELSE SubSeq(ar, dotAt + 1, Len(ar))
    IN  StripLeadingZeros(whole \o fraction \o Zeros(12 - Len(fraction)))

(***************************************************************************)
(* C2: for every non-negative integer Winston amount w given as a decimal  *)
(* digit string, including amounts above 2^53, winstonToAr(w) returns the  *)
(* decimal string with exactly 12 fractional digits whose value is exactly *)
(* w / 10^12.                                                              *)
(***************************************************************************)
C2_WinstonToArExact ==
    uAr.st # "pending" => uAr.st = "ok" /\ uAr.val = RefWinstonToAr(uIn)

(***************************************************************************)
(* C3: for every non-negative decimal string ar with at most 12 fractional *)
(* digits, arToWinston(ar) returns the decimal digit string of exactly     *)
(* floor(ar * 10^12), with no precision loss.                              *)
(***************************************************************************)
C3_ArToWinstonExact ==
    aOut.st # "pending" => aOut.st = "ok" /\ aOut.val = RefArToWinston(aIn)

(***************************************************************************)
(* C4: for every valid non-negative Winston integer w (a decimal digit     *)
(* string without leading zeros), arToWinston(winstonToAr(w)) equals w.    *)
(***************************************************************************)
C4_WinstonRoundTrip ==
    uBack.st # "pending" => uBack.st = "ok" /\ uBack.val = uIn

(***************************************************************************)
(* C5: isValidTransactionId(id) returns true exactly when id has 43        *)
(* characters, every one of them in A-Z, a-z, 0-9, '-' or '_'; for every   *)
(* other input, including the empty string, null, a 44-character string    *)
(* and a 43-character string with one other character, it returns false    *)
(* and never throws.                                                       *)
(***************************************************************************)
\* "ABCDEFGHIJKLMNOPQRSTUVWXYZabcdefghijklmnopqrstuvwxyz0123456789-_"
RefTxIdChars == {RefAlphabet[i] : i \in 1..62} \cup {45, 95}

C5_ValidTransactionId ==
    vOut.st # "pending" =>
        /\ vOut.st = "ok"
        /\ vOut.val \in BOOLEAN
        /\ vOut.val <=> /\ vIn.type = "string"
                        /\ Len(vIn.val) = 43
                        /\ \A i \in 1..Len(vIn.val) : vIn.val[i] \in RefTxIdChars

\* a 43-character id with '-' in it is accepted
C5_Witness ==
    /\ vOut.st = "ok"
    /\ vOut.val
    /\ Contains(vIn.val, ChMinus)

(***************************************************************************)
(* C8: whenever the HTTP client call made by arweaveApiRequest,            *)
(* graphqlRequest, getTransactionData or getRawData fails (connection      *)
(* failure, timeout or non-2xx status), the caller receives a NodeApiError *)
(* and never the raw exception of the HTTP client.                         *)
(***************************************************************************)
C8_HttpFailureIsNodeApiError ==
    (pc = "done" /\ httpOutcome.st = "throw") =>
        /\ call.fn \in {"arweaveApiRequest", "graphqlRequest",
                        "getTransactionData", "getRawData"}
        /\ result.st = "throw"
        /\ result.val.name = "NodeApiError"
        /\ result.val # httpOutcome.val

\* arweaveApiRequest: the request times out and the caller gets a NodeApiError
C8_Witness ==
    /\ pc = "done"
    /\ call.fn = "arweaveApiRequest"
    /\ httpOutcome.st = "throw"
    /\ httpOutcome.val = TimeoutFailure
    /\ result.st = "throw"
    /\ result.val.name = "NodeApiError"

(***************************************************************************)
(* C9: graphqlRequest fails with a NodeApiError whose message is the       *)
(* reported error messages joined by ', ' in their reported order whenever *)
(* the response carries a non-empty errors array, even if a data field is  *)
(* also present; in every other successful response it returns the data    *)
(* field.                                                                  *)
(***************************************************************************)
RECURSIVE RefJoined(_, _)
RefJoined(errors, n) ==
    IF n = 1 THEN errors[1].message
    ELSE RefJoined(errors, n - 1) \o ", " \o errors[n].message

GraphqlAnswered ==
    /\ pc = "done"
    /\ call.fn = "graphqlRequest"
    /\ httpOutcome.st = "ok"

ReportsErrors(response) ==
    /\ response.type = "object"
    /\ response.fields.errors.type = "array"
    /\ Len(response.fields.errors.items) > 0

\* the claim as stated
C9_JoinedMessagesOrData ==
    GraphqlAnswered =>
        IF ReportsErrors(httpOutcome.val)
        THEN /\ result.st = "throw"
             /\ result.val.name = "NodeApiError"
             /\ result.val.message =
                  RefJoined(httpOutcome.val.fields.errors.items,
                            Len(httpOutcome.val.fields.errors.items))
        ELSE /\ result.st = "ok"
             /\ httpOutcome.val.type = "object" =>
                  result.val = httpOutcome.val.fields.data

\* C9 as amended: an empty joined string leaves the NodeApiError with its
\* default message, and a null response fails with a NodeApiError too
C9_JoinedMessagesOrDefaultOrData ==
    GraphqlAnswered =>
        IF ReportsErrors(httpOutcome.val)
        THEN LET joined == RefJoined(httpOutcome.val.fields.errors.items,
                                     Len(httpOutcome.val.fields.errors.items))
             IN  /\ result.st = "throw"
                 /\ result.val.name = "NodeApiError"
                 /\ result.val.message =
                      IF joined = "" THEN "API Error" ELSE joined
        ELSE IF httpOutcome.val.type = "object"
        THEN /\ result.st = "ok"
             /\ result.val = httpOutcome.val.fields.data
        ELSE /\ result.st = "throw"
             /\ result.val.name = "NodeApiError"

\* two errors beside a data field: the call fails with both messages
C9_Witness ==
    /\ GraphqlAnswered
    /\ ReportsErrors(httpOutcome.val)
    /\ httpOutcome.val.fields.data.type = "object"
    /\ result.st = "throw"
    /\ result.val.message = "not found, bad, query"

(***************************************************************************)
(* C10: each call of arweaveApiRequest or graphqlRequest issues exactly    *)
(* one HTTP request; when that request fails the call fails at once,       *)
(* without issuing a second request and without returning a fallback       *)
(* value.                                                                  *)
(***************************************************************************)
RestOrGraphqlCall == call.fn \in {"arweaveApiRequest", "graphqlRequest"}

\* the claim as stated
C10_ExactlyOneRequest ==
    (RestOrGraphqlCall /\ pc = "done") =>
        /\ Len(requests) = 1
        /\ httpOutcome.st = "throw" => result.st = "throw"

\* C10 as amended: at most one request; exactly one once the credentials
\* resolve and none when resolving them fails; a failed request fails the call
C10_AtMostOneRequest ==
    RestOrGraphqlCall =>
        /\ Len(requests) <= 1
        /\ pc = "done" =>
             Len(requests) = IF getCredentials(store).st = "ok" THEN 1 ELSE 0
        /\ (pc = "done" /\ httpOutcome.st = "throw") =>
             /\ result.st = "throw"
             /\ Len(requests) = 1

\* a second call, graphqlRequest, whose only request failed
C10_Witness ==
    /\ calls = 2
    /\ call.fn = "graphqlRequest"
    /\ pc = "done"
    /\ httpOutcome.st = "throw"
    /\ result.st = "throw"
    /\ Len(requests) = 1

(***************************************************************************)
(* C11: winstonToAr and arToWinston fail with an error, rather than        *)
(* returning a value, whenever their input is non-numeric or negative.     *)
(***************************************************************************)
\* a decimal literal: an optional '-', digits with at most one '.', and at
\* least one digit
RefIsDecimal(str) ==
    LET body == IF Len(str) >= 1 /\ str[1] = ChMinus THEN Tail(str) ELSE str
    IN  /\ \A i \in 1..Len(body) : body[i] = ChDot \/ IsDigit(body[i])
        /\ Cardinality({i \in 1..Len(body) : body[i] = ChDot}) <= 1
        /\ \E i \in 1..Len(body) : IsDigit(body[i])

\* a decimal literal below zero
RefIsNegative(str) ==
    /\ RefIsDecimal(str)
    /\ str[1] = ChMinus
    /\ \E i \in 1..Len(str) : IsDigit(str[i]) /\ str[i] # Ch0

RefInvalidAmount(str) == ~RefIsDecimal(str) \/ RefIsNegative(str)

C11_InvalidAmountFails ==
    /\ (uAr.st # "pending" /\ RefInvalidAmount(uIn)) => uAr.st = "throw"
    /\ (aOut.st # "pending" /\ RefInvalidAmount(aIn)) => aOut.st = "throw"
    /\ (xAr.st # "pending" /\ RefInvalidAmount(uIn)) => xAr.st = "throw"
    /\ (xWinston.st # "pending" /\ RefInvalidAmount(aIn)) =>
           xWinston.st = "throw"

(***************************************************************************)
(* C12: decodeBase64Url and decodeTags return a value for every input      *)
(* string, including input that is not well-formed Base64URL or whose      *)
(* bytes are not valid UTF-8; they never raise an error.                   *)
(***************************************************************************)
InRange(b, lo, hi) == b >= lo /\ b <= hi

\* RFC 3629, section 4: the well-formed byte sequences
RECURSIVE RefWellFormedUtf8(_)
RefWellFormedUtf8(bytes) ==
    LET n == Len(bytes)
        b(k) == IF k <= n THEN bytes[k] ELSE -1
        tail(k) == InRange(b(k), 128, 191)
        rest(k) == RefWellFormedUtf8(SubSeq(bytes, k, n))
    IN  \/ n = 0
        \/ InRange(b(1), 0, 127) /\ rest(2)
        \/ InRange(b(1), 194, 223) /\ tail(2) /\ rest(3)
        \/ b(1) = 224 /\ InRange(b(2), 160, 191) /\ tail(3) /\ rest(4)
        \/ InRange(b(1), 225, 236) /\ tail(2) /\ tail(3) /\ rest(4)
        \/ b(1) = 237 /\ InRange(b(2), 128, 159) /\ tail(3) /\ rest(4)
        \/ InRange(b(1), 238, 239) /\ tail(2) /\ tail(3) /\ rest(4)
        \/ b(1) = 240 /\ InRange(b(2), 144, 191) /\ tail(3) /\ tail(4) /\ rest(5)
        \/ InRange(b(1), 241, 243) /\ tail(2) /\ tail(3) /\ tail(4) /\ rest(5)
        \/ b(1) = 244 /\ InRange(b(2), 128, 143) /\ tail(3) /\ tail(4) /\ rest(5)

\* the bytes an input string stands for
DecodedBytes(str) == Base64Parse(base64UrlToBase64(str))

\* the claim as stated
C12_DecodeNeverThrows ==
    /\ cDec.st # "pending" => cDec.st = "ok"
    /\ tDec.st # "pending" => tDec.st = "ok"

\* what the decoders do instead (C12): a value comes back exactly when the
\* decoded bytes are well-formed UTF-8, and it is the text those bytes
\* encode; otherwise the error 'Malformed UTF-8 data' is raised
C12_DecodeThrowsOnlyOnMalformedUtf8 ==
    /\ cDec.st # "pending" =>
         IF RefWellFormedUtf8(DecodedBytes(cEnc.val))
         THEN cDec.st = "ok" /\ RefUtf8(cDec.val) = DecodedBytes(cEnc.val)
         ELSE cDec.st = "throw" /\ cDec.val = "Malformed UTF-8 data"
    /\ tDec.st # "pending" =>
         IF \A i \in 1..Len(tEnc.val) :
               /\ RefWellFormedUtf8(DecodedBytes(tEnc.val[i].name))
               /\ RefWellFormedUtf8(DecodedBytes(tEnc.val[i].value))
         THEN /\ tDec.st = "ok"
              /\ Len(tDec.val) = Len(tEnc.val)
              /\ \A i \in 1..Len(tEnc.val) :
                    /\ RefUtf8(tDec.val[i].name) = DecodedBytes(tEnc.val[i].name)
                    /\ RefUtf8(tDec.val[i].value) = DecodedBytes(tEnc.val[i].value)
         ELSE tDec.st = "throw" /\ tDec.val = "Malformed UTF-8 data"

\* '!Q' is not Base64URL and decodes to the one character U+0001
C12_Witness ==
    /\ cEnc.st = "ok"
    /\ cEnc.val = <<33, 81>>
    /\ cDec.st = "ok"
    /\ cDec.val = <<1>>

(***************************************************************************)
(* Reference definitions for the node claims.                              *)
(***************************************************************************)
HasSubSeq(s, sub) ==
    \E i \in 1..(Len(s) - Len(sub) + 1) : SubSeq(s, i, i + Len(sub) - 1) = sub

\* the parameters item k (from 1) is processed with
OperationOf(k) ==
    IF nodeClass = "actions" THEN inputData[k].operation
    ELSE inputData[1].operation

ResourceOf(k) ==
    IF nodeClass = "actions" THEN inputData[k].resource
    ELSE inputData[1].resource

TakesTransactionId(k) ==
    /\ ResourceOf(k) \in {"transactions", "transaction"}
    /\ OperationOf(k) = "getTransactionStatus"

RefIsTransactionId(str) ==
    /\ Len(str) = 43
    /\ \A i \in 1..Len(str) : str[i] \in RefTxIdChars

(***************************************************************************)
(* C13: in every operation that takes a user-supplied transaction ID, when *)
(* isValidTransactionId returns false for that ID the operation fails with *)
(* an input error and no gateway request whose URL contains that ID is     *)
(* issued.                                                                 *)
(***************************************************************************)
C13_InvalidIdIsNotRequested ==
    \A k \in 1..Len(inputData) :
        (TakesTransactionId(k) /\ ~RefIsTransactionId(inputData[k].transactionId))
        => /\ \A r \in 1..Len(issued) :
                 issued[r].item = k - 1 =>
                     ~HasSubSeq(issued[r].options.url,
                                inputData[k].transactionId)
           /\ k <= Len(causes) =>
                 /\ causes[k].st = "throw"
                 /\ causes[k].val.name = "NodeOperationError"
                 /\ causes[k].val.message = InvalidTransactionId.message

\* the output records of item k (from 1) that report an error
ErrorRecordsOf(k) ==
    {r \in 1..Len(returnData) :
        /\ "pairedItem" \in DOMAIN returnData[r]
        /\ returnData[r].pairedItem.item = k - 1
        /\ "error" \in DOMAIN returnData[r].json}

Failed(k) == k <= Len(causes) /\ causes[k].st = "throw"

Unsupported ==
    /\ nodeClass = "handlers"
    /\ inputData[1].resource \notin {"transaction", "graphQLQuery", "block"}

\* items are taken in input order, one at a time
InInputOrder ==
    /\ Len(causes) <= Len(inputData)
    /\ xpc \in {"item", "await"} => itemIndex = Len(causes)
    /\ \A r \in 1..Len(issued) :
          /\ issued[r].item < Len(inputData)
          /\ issued[r].item <= Len(causes)
          /\ r > 1 => issued[r - 1].item < issued[r].item

RefEmptyMessageReport ==
    CASE nodeClass = "actions" -> "API Error"
      [] nodeClass = "handlers" /\ inputData[1].resource = "transaction" ->
           "Unknown error occurred"
      [] OTHER -> ""

FirstFailure ==
    IF \E k \in 1..Len(causes) : causes[k].st = "throw"
    THEN CHOOSE k \in 1..Len(causes) :
            /\ causes[k].st = "throw"
            /\ \A j \in 1..(k - 1) : causes[j].st = "ok"
    ELSE 0

\* nothing happens after the item that failed
StopsAtFirstFailure ==
    /\ xpc = "done"
    /\ execution.st = "throw"
    /\ Len(causes) = FirstFailure
    /\ \A r \in 1..Len(issued) : issued[r].item < FirstFailure

RefEmptyMessageThrown ==
    CASE nodeClass = "actions" -> "API Error"
      [] nodeClass = "handlers" /\ inputData[1].resource = "transaction" ->
           "Unknown error occurred"
      [] nodeClass = "handlers" /\ inputData[1].resource = "graphQLQuery" ->
           "API Error"
      [] OTHER -> ""

RefOperations(resource) ==
    CASE resource = "transactions" ->
           {"getTransactionStatus", "getPendingTransactions"}
      [] resource = "transaction" ->
           {"getTransactionStatus", "getTransactionAnchor"}
      [] resource = "graphQLQuery" -> {"getSchema"}
      [] resource = "block" -> {"getCurrentBlock"}
      [] OTHER -> {}

UndefinedOperation(k) ==
    /\ RefOperations(ResourceOf(k)) # {}
    /\ OperationOf(k) \notin RefOperations(ResourceOf(k))

(***************************************************************************)
(* C16: with Continue on Fail disabled, an operation name that the         *)
(* selected resource does not define makes the handler fail with the error *)
(* 'Unknown operation: <name>' without issuing any gateway request.        *)
(***************************************************************************)
C16_UnknownOperation ==
    \A k \in 1..Len(causes) :
        (~continueOnFail /\ UndefinedOperation(k)) =>
            /\ k = Len(causes)
            /\ causes[k].st = "throw"
            /\ xpc = "done"
            /\ execution.st = "throw"
            /\ execution.val.message = "Unknown operation: " \o OperationOf(k)
            /\ \A r \in 1..Len(issued) : issued[r].item # k - 1

\* after an answered item, an item with the operation 'frobnicate'
C16_Witness ==
    /\ ~continueOnFail
    /\ nodeClass = "actions"
    /\ Len(causes) = 2
    /\ causes[1].st = "ok"
    /\ UndefinedOperation(2)
    /\ Len(issued) = 1
    /\ execution.st = "throw"
    /\ execution.val.message = "Unknown operation: frobnicate"

(***************************************************************************)
(* C17: every tag placed in a transaction or data-item body that is sent   *)
(* to or prepared for the gateway has a name and a value equal to the      *)
(* Base64URL encoding of the caller's plain name and value (so without     *)
(* '+', '/' or '='), in the caller's order.                                *)
(***************************************************************************)
RefEncoded(str) == RefUrlSafe(RefBase64(RefUtf8(str)))

\* the tags of the body as far as the caller's go: the operations of
\* executeDataUploadOperation put one more tag, Content-Type, behind them
C17_BodyTagsAreBase64Url ==
    upload.body.st = "ok" =>
        /\ Len(upload.body.val.tags) >= Len(tIn)
        /\ \A i \in 1..Len(tIn) :
              /\ upload.body.val.tags[i].name = RefEncoded(tIn[i].name)
              /\ upload.body.val.tags[i].value = RefEncoded(tIn[i].value)
        /\ \A i \in 1..Len(upload.body.val.tags) :
              \A c \in {43, 47, 61} :
                  /\ ~Contains(upload.body.val.tags[i].name, c)
                  /\ ~Contains(upload.body.val.tags[i].value, c)

(***************************************************************************)
(* Reference definitions for the batch claim: decimal numerals added digit *)
(* by digit.                                                               *)
(***************************************************************************)
\* the digit of numeral a at place p (0 is the last one)
RefDigit(a, p) == IF p < Len(a) THEN a[Len(a) - p] - 48 ELSE 0

RECURSIVE RefCarry(_, _, _)
RefCarry(a, b, p) ==
    IF p = 0 THEN 0
    ELSE (RefDigit(a, p - 1) + RefDigit(b, p - 1) + RefCarry(a, b, p - 1))
         \div 10

RefAdd(a, b) ==
    LET places == (IF Len(a) > Len(b) THEN Len(a) ELSE Len(b)) + 1
        digit(p) == (RefDigit(a, p) + RefDigit(b, p) + RefCarry(a, b, p)) % 10
        written == [k \in 1..places |-> 48 + digit(places - k)]
    IN  StripLeadingZeros(written)

RECURSIVE RefSum(_)
RefSum(prices) ==
    IF prices = <<>> THEN <<48>>
    ELSE RefAdd(RefSum(SubSeq(prices, 1, Len(prices) - 1)),
                prices[Len(prices)])

\* the size an entry stands for: the number its digits write, or the
\* number of bytes of the data
RECURSIVE RefNumber(_)
RefNumber(digits) ==
    IF digits = <<>> THEN 0
    ELSE (10 * RefNumber(SubSeq(digits, 1, Len(digits) - 1)))
         + (digits[Len(digits)] - 48)

RefSize(op, entry) ==
    IF op = "batchUpload" THEN Len(RefUtf8(entry))
    ELSE RefNumber(SelectSeq(entry, LAMBDA c : c # 32))

RefNumeral(n) == IF n = 0 THEN <<48>> ELSE StripLeadingZeros(
                     [k \in 1..10 |-> 48 + ((n \div (10 ^ (10 - k))) % 10)])

\* the prices returned so far, in the order of the log
ReturnedPrices ==
    LET answers == SelectSeq(batch.log,
                             LAMBDA ev : ev.kind = "response" /\ ev.outcome.st = "ok")
    IN  [k \in 1..Len(answers) |-> answers[k].outcome.val]

(***************************************************************************)
(* C18: for a batch of n sizes (estimateUploadCost, batchUpload) exactly n *)
(* price requests are issued, one per item in input order, each completing *)
(* before the next is issued, and the reported total cost in Winston       *)
(* equals the exact integer sum of the n returned prices.                  *)
(***************************************************************************)
C18_BatchPricing ==
    /\ Len(batch.log) <= 2 * Len(batch.entries)
    /\ \A j \in 1..Len(batch.log) :
          LET k == (j + 1) \div 2 IN
          /\ batch.log[j].item = k
          /\ batch.log[j].kind = IF j % 2 = 1 THEN "request" ELSE "response"
          /\ j % 2 = 1 =>
                /\ batch.log[j].options.method = "GET"
                /\ \E base \in {Units("https://arweave.net"),
                                Units("http://localhost:1984")} :
                      batch.log[j].options.url =
                          base \o Units("/price/")
                          \o RefNumeral(RefSize(batch.op, batch.entries[k]))
          /\ (j % 2 = 1 /\ j > 1) => batch.log[j - 1].outcome.st = "ok"
    /\ batch.pc = "await" <=> Len(batch.log) % 2 = 1
    /\ (batch.pc = "done" /\ batch.result.st = "ok") =>
          /\ Len(batch.log) = 2 * Len(batch.entries)
          /\ Len(ReturnedPrices) = Len(batch.entries)
          /\ batch.result.val.count = Len(batch.entries)
          /\ batch.result.val.total.winston = RefSum(ReturnedPrices)
    /\ (batch.pc = "done" /\ Len(ReturnedPrices) = Len(batch.entries)
        /\ \A k \in 1..Len(ReturnedPrices) :
              \A i \in 1..Len(ReturnedPrices[k]) :
                  ReturnedPrices[k][i] \in 48..57)
       => batch.result.st = "ok"

\* two sizes priced at 7 and at 2^53 + 1 Winston: 9007199254741000 in all
C18_Witness ==
    /\ batch.pc = "done"
    /\ batch.op = "estimateUploadCost"
    /\ batch.result.st = "ok"
    /\ Len(batch.log) = 4
    /\ ReturnedPrices =
          <<<<55>>,
            <<57, 48, 48, 55, 49, 57, 57, 50, 53, 52, 55, 52, 48, 57, 57, 51>>>>
    /\ batch.result.val.total.winston =
          <<57, 48, 48, 55, 49, 57, 57, 50, 53, 52, 55, 52, 49, 48, 48, 48>>

(***************************************************************************)
(* C19: across any sequence and interleaving of node executions and        *)
(* trigger polls in one process, the licensing notice is written to the    *)
(* console at most once.                                                   *)
(***************************************************************************)
C19_NoticeAtMostOnce == warnings <= 1

\* the default the README's credentials table documents for Timeout
DocumentedTimeout == 30000

(***************************************************************************)
(* C20: every HTTP request issued by the transport and by the trigger      *)
(* carries a timeout equal to the timeout configured in the credentials,   *)
(* and equal to the documented default of 30000 ms when the credentials    *)
(* leave the timeout unset.                                                *)
(***************************************************************************)
C20_RequestsCarryTimeout ==
    LET expected == IF store.timeout # 0 THEN store.timeout
                    ELSE DocumentedTimeout
    IN  /\ \A i \in 1..Len(requests) : requests[i].timeout = expected
        /\ \A i \in 1..Len(trigger.sent) : trigger.sent[i].timeout = expected

(***************************************************************************)
(* C21: a single poll of the trigger returns at most `limit` items (Max    *)
(* Results per Poll), for every trigger type and whatever list the gateway *)
(* responds with.                                                          *)
(***************************************************************************)
C21_PollReturnsAtMostLimit ==
    (trigger.pc = "done" /\ trigger.result.st = "ok")
        => Len(trigger.returnData) <= triggerParams.limit

(***************************************************************************)
(* Reference definitions for the file size claim: naturals as limbs        *)
(* compared from the top, and the hundredths a decimal text writes.        *)
(***************************************************************************)
RefUnitNames ==
    <<<<66, 121, 116, 101, 115>>, <<75, 66>>, <<77, 66>>, <<71, 66>>,
      <<84, 66>>>>

RECURSIVE RefLimbs(_)
RefLimbs(n) ==
    IF n = 0 THEN <<>> ELSE <<n % LimbBase>> \o RefLimbs(n \div LimbBase)

RECURSIVE RefLeqFrom(_, _, _)
RefLeqFrom(a, b, i) ==
    IF i = 0 THEN TRUE
    ELSE IF a[i] # b[i] THEN a[i] < b[i]
    ELSE RefLeqFrom(a, b, i - 1)

\* a <= b
RefLeq(a, b) ==
    IF Len(a) # Len(b) THEN Len(a) < Len(b) ELSE RefLeqFrom(a, b, Len(a))

\* the byte count handed in, as a natural
RefBytes == BigTrim(BigShl(fIn.m, fIn.e))

\* the largest i with 1024^i <= n, for n >= 1
RefUnitIndex(n) ==
    CHOOSE i \in 0..(MaxUnit + 3) :
        /\ RefLeq(BigShl(<<1>>, 10 * i), n)
        /\ ~RefLeq(BigShl(<<1>>, 10 * (i + 1)), n)

\* text is digits, or digits '.' and one or two digits not ending in '0'
RefIsShortDecimal(text) ==
    \E whole \in 1..Len(text) :
        /\ \A k \in 1..whole : text[k] \in 48..57
        /\ (whole > 1 => text[1] # 48)
        /\ \/ whole = Len(text)
           \/ /\ Len(text) - whole \in {2, 3}
              /\ text[whole + 1] = 46
              /\ \A k \in (whole + 2)..Len(text) : text[k] \in 48..57
              /\ text[Len(text)] # 48

\* the hundredths a short decimal writes
RefHundredths(text) ==
    LET dotted == {k \in 1..Len(text) : text[k] = 46}
        whole == IF dotted = {} THEN Len(text) ELSE (CHOOSE k \in dotted : TRUE) - 1
        places == IF dotted = {} THEN 0 ELSE Len(text) - whole - 1
        frac == IF places = 0 THEN 0
                ELSE IF places = 1 THEN 10 * (text[Len(text)] - 48)
                ELSE (10 * (text[Len(text) - 1] - 48)) + (text[Len(text)] - 48)
    IN  (100 * RefNumber(SubSeq(text, 1, whole))) + frac

\* q / 100 is as near to n / 1024^i as hundredths get
RefNearest(q, n, i) ==
    LET unit == BigShl(<<1>>, 10 * i)
        twice == BigShl(RefLimbs(q), (10 * i) + 1)
        exact == BigMulAdd(n, 200, 0)
    IN  /\ RefLeq(BigTrim(twice), BigTrim(BigAdd(exact, unit)))
        /\ RefLeq(BigTrim(exact), BigTrim(BigAdd(twice, unit)))

\* out is n / 1024^i to at most two decimals, a blank and the i-th unit
RefFormatted(out, n, i) ==
    \E blank \in 1..Len(out) :
        LET text == SubSeq(out, 1, blank - 1) IN
        /\ out[blank] = 32
        /\ SubSeq(out, blank + 1, Len(out)) = RefUnitNames[i + 1]
        /\ RefIsShortDecimal(text)
        /\ RefNearest(RefHundredths(text), n, i)

RefEndsInUnit(out) ==
    \E i \in 1..Len(RefUnitNames) :
        /\ Len(out) >= Len(RefUnitNames[i])
        /\ SubSeq(out, Len(out) - Len(RefUnitNames[i]) + 1, Len(out))
               = RefUnitNames[i]

(***************************************************************************)
(* C22: for every non-negative integer byte count n, formatFileSize(n)     *)
(* returns '0 Bytes' when n = 0 and otherwise the value n / 1024^i,        *)
(* rounded to at most two decimals, followed by the i-th of the units      *)
(* Bytes, KB, MB, GB, TB, where i is the largest index with 1024^i <= n;   *)
(* the result always ends in one of these five unit names.                 *)
(***************************************************************************)
C22_FormatFileSize ==
    fOut.st = "ok" =>
        /\ RefEndsInUnit(fOut.val)
        /\ IF RefBytes = <<>> THEN fOut.val = <<48, 32>> \o RefUnitNames[1]
           ELSE LET i == RefUnitIndex(RefBytes)
                IN  RefFormatted(fOut.val, RefBytes,
                                 IF i < Len(RefUnitNames) THEN i
                                 ELSE Len(RefUnitNames) - 1)

\* the same below 1024^5 bytes, where the five units suffice
C22_FormatFileSizeBelowPetabyte ==
    (fOut.st = "ok" /\ ~RefLeq(BigShl(<<1>>, 50), RefBytes)) =>
        /\ RefEndsInUnit(fOut.val)
        /\ IF RefBytes = <<>> THEN fOut.val = <<48, 32>> \o RefUnitNames[1]
           ELSE RefFormatted(fOut.val, RefBytes, RefUnitIndex(RefBytes))

(***************************************************************************)
(* C23: for the transaction-based trigger types, when the gateway returns  *)
(* transactions newest-first and never reorders or removes transactions it *)
(* has already returned, a transaction ID emitted by one poll is never     *)
(* emitted again by any later poll.                                        *)
(***************************************************************************)
C23_NoIdEmittedTwice ==
    /\ ~emissions.repeated
    /\ (trigger.pc = "done" /\ trigger.result.st = "ok") =>
          \A k \in 1..Len(trigger.returnData) :
              EmittedKey(trigger.returnData[k]) \in emissions.emitted

\* the second poll was served a page holding a transaction the first poll
\* had emitted, behind one that is new, and emitted the new one
C23_Witness ==
    /\ gateway = "feed"
    /\ polls = 2
    /\ trigger.pc = "done"
    /\ trigger.result.st = "ok"
    /\ emissions.lastGood = 2
    /\ Len(trigger.returnData) = 1
    /\ Len(chain) >= 2
    /\ chain[2].born = 0
    /\ chain[1].born = 1
    /\ triggerParams.limit >= 2
    /\ chain[2].edge.id \in emissions.emitted
    /\ chain[2].edge.id = "a"
    /\ webhookData.lastProcessedId = chain[1].edge.id

\* whether a transaction of the feed matches the trigger's filter: the feed
\* of largeUploadDetected holds uploads of every size
RefMatches(edge) ==
    triggerParams.triggerType = "largeUploadDetected" =>
        /\ edge.data.present
        /\ RefNumber(edge.data.size) >= triggerParams.sizeThreshold

(***************************************************************************)
(* C24: every transaction matching the trigger's filter that first appears *)
(* at the gateway after some poll is emitted by a later poll, however many *)
(* new matching transactions arrive between two consecutive polls.  Here:  *)
(* once a poll that began after the transaction came has succeeded, the    *)
(* transaction has been emitted (a poll never goes back behind the id it   *)
(* stored, so a transaction passed over once is not emitted later).        *)
(***************************************************************************)
C24_NewTransactionsAreEmitted ==
    \A k \in 1..Len(chain) :
        (/\ RefMatches(chain[k].edge)
         /\ chain[k].born >= 1
         /\ chain[k].born < emissions.lastGood)
        => chain[k].edge.id \in emissions.emitted

\* the keys of the heights from lo to hi
RefHeightKeys(lo, hi) == {ToString(h) : h \in lo..hi}

\* blockMined so far: nothing is emitted until a height is recorded, and
\* then every height above the first recorded one up to the stored one has
\* been emitted, once
RefHeightsEmittedOnce ==
    /\ ~emissions.repeated
    /\ emissions.emitted =
          IF webhookData.lastHeight.known
          THEN RefHeightKeys(emissions.base + 1, webhookData.lastHeight.height)
          ELSE {}

\* a poll emits consecutive heights in increasing order
RefHeightsInOrder ==
    (trigger.pc = "done" /\ trigger.result.st = "ok") =>
        \A k \in 1..(Len(trigger.returnData) - 1) :
            trigger.returnData[k + 1].height = trigger.returnData[k].height + 1

RefLastHeightGrows ==
    webhookData'.lastHeight.height >= webhookData.lastHeight.height

(***************************************************************************)
(* C25: in the blockMined trigger, the first poll records the current      *)
(* height and emits nothing; afterwards every block height above the       *)
(* recorded one is emitted by exactly one poll, in increasing height order *)
(* with no height skipped, and the stored lastHeight never decreases.      *)
(***************************************************************************)
C25_BlockHeightsInOrder ==
    /\ [](triggerParams.triggerType = "blockMined"
            => (RefHeightsEmittedOnce /\ RefHeightsInOrder))
    /\ [][triggerParams.triggerType = "blockMined" => RefLastHeightGrows]_vars

(***************************************************************************)
(* C26: when a poll fails with an error (a gateway request fails or a      *)
(* response cannot be processed), the trigger's stored state               *)
(* (lastProcessedId, lastHeight) is exactly what it was before that poll,  *)
(* and the poll emits no items.  As a statement about steps: the stored    *)
(* state changes only in the step that ends a poll successfully, and a     *)
(* step that ends a poll with an error yields the error and adds nothing   *)
(* to what has been emitted.                                               *)
(***************************************************************************)
C26_FailedPollKeepsState ==
    [][/\ ~(trigger'.pc = "done" /\ trigger'.result.st = "ok")
            => webhookData' = webhookData
       /\ (trigger'.pc = "done" /\ trigger'.result.st = "throw")
            => /\ trigger'.result.val.name = "NodeOperationError"
               /\ emissions' = emissions]_vars

\* a second poll has failed at a response whose tags do not decode, after a
\* first poll that stored an id
C26_Witness ==
    /\ polls = 2
    /\ trigger.pc = "done"
    /\ trigger.result.st = "throw"
    /\ trigger.result.val.message = "Malformed UTF-8 data"
    /\ Len(trigger.sent) = 1
    /\ webhookData.lastProcessedId = "a"
    /\ emissions.emitted # {}

(***************************************************************************)
(* C27: when the credentials set a gateway URL but leave the GraphQL       *)
(* endpoint empty, graphqlRequest posts its {query, variables} envelope to *)
(* that gateway's own '/graphql' path (gatewayUrl + '/graphql'), the same  *)
(* URL the trigger uses in that case.                                      *)
(***************************************************************************)
C27_GraphqlFollowsGateway ==
    (/\ call.fn = "graphqlRequest"
     /\ store.present
     /\ store.gatewayUrl # ""
     /\ store.graphqlEndpoint = ""
     /\ requests # <<>>) =>
        /\ requests[1].method = "POST"
        /\ requests[1].body = [query |-> call.args.query,
                               variables |-> call.args.variables]
        /\ requests[1].url = store.gatewayUrl \o "/graphql"
        /\ requests[1].url = pollConfig(store).graphqlUrl

\* the first n of the block's ids, for a count n
RefFirstIds(txIds, n) ==
    [i \in 1..(IF n < Len(txIds) THEN n ELSE Len(txIds)) |-> txIds[i]]

\* the detail requests issued so far
RefDetailRequests == Tail(blockTransactions.sent)

\* the k-th detail request has failed
RefDetailFailed(k) ==
    \E j \in 1..Len(blockTransactions.details) :
        /\ blockTransactions.details[j].k = k
        /\ blockTransactions.details[j].st = "throw"

(***************************************************************************)
(* C28: in getBlockTransactions with details, the detail requests for the  *)
(* block's first transactionLimit transaction IDs are issued together,     *)
(* and in whatever order they complete or fail the output lists exactly    *)
(* one entry per requested ID in the block's order; a failed detail        *)
(* request yields {id, error} for that ID only and never fails the         *)
(* operation.                                                              *)
(***************************************************************************)
C28_DetailsInBlockOrder ==
    LET op == blockTransactions
        ids == op.limitedTxIds
    IN  /\ (op.pc \in {"details", "done"} /\ Len(op.sent) > 1) =>
             \* all of them are out before any has settled, one per id
             /\ RefDetailRequests = [i \in 1..Len(ids) |-> "/tx/" \o ids[i]]
             /\ op.params.transactionLimit >= 0 =>
                  ids = RefFirstIds(op.txIds, op.params.transactionLimit)
             /\ \A i \in 1..Len(ids) : ids[i] = op.txIds[i]
        /\ (op.pc = "done" /\ Len(op.sent) > 1) =>
             /\ op.result.st = "ok"
             /\ Len(op.result.val.transactions) = Len(ids)
             /\ \A i \in 1..Len(ids) :
                  LET entry == op.result.val.transactions[i] IN
                  /\ entry.id = ids[i]
                  /\ RefDetailFailed(i) =>
                       entry = [id |-> ids[i], owner |-> "",
                                error |-> DETAILS_FAILED]
                  /\ ~RefDetailFailed(i) =>
                       entry = [id |-> ids[i], owner |-> "owner1",
                                error |-> ""]

\* three transactions in the block, a limit of two: the second request
\* failed first, then the first one succeeded
C28_Witness ==
    /\ blockTransactions.pc = "done"
    /\ Len(blockTransactions.txIds) = 3
    /\ blockTransactions.params.transactionLimit = 2
    /\ Len(blockTransactions.details) = 2
    /\ blockTransactions.details[1].k = 2
    /\ blockTransactions.details[1].st = "throw"
    /\ blockTransactions.details[2].st = "ok"
    /\ blockTransactions.result.st = "ok"

\* the calls of fn made so far
RefFnCalls == Len(SelectSeq(retry.log, LAMBDA event : event.ev = "fn"))

\* the calls of fn that have failed so far
RefFailures == Len(SelectSeq(fnTrace, LAMBDA settled : settled.st = "throw"))

(***************************************************************************)
(* C29: retryWithBackoff(fn, maxRetries, baseDelay) calls fn at most       *)
(* maxRetries times, returns the result of the first successful call       *)
(* without calling fn again, waits baseDelay * 2^k after failed attempt k  *)
(* (counted from 0) before the next attempt, does not wait after the final *)
(* attempt, and after maxRetries failures throws the error of the last     *)
(* attempt.                                                                *)
(***************************************************************************)
C29_RetryWithBackoff ==
    /\ RefFnCalls <= (IF retry.maxRetries > 0 THEN retry.maxRetries ELSE 0)
    /\ RefFnCalls = Len(fnTrace) + (IF retry.pc = "fn" THEN 1 ELSE 0)
    \* a successful call is the last call, and its value is returned
    /\ \A k \in 1..Len(fnTrace) :
         fnTrace[k].st = "ok" =>
            /\ k = Len(fnTrace)
            /\ retry.pc = "done"
            /\ retry.result.st = "ok"
            /\ retry.result.val = fnTrace[k].val
    \* calls and waits alternate: attempt k is event 2k + 1, and the wait
    \* after it is event 2k + 2 and lasts baseDelay * 2^k
    /\ \A i \in 1..Len(retry.log) :
         IF i % 2 = 1
         THEN retry.log[i].ev = "fn"
         ELSE /\ retry.log[i].ev = "sleep"
              /\ retry.log[i].delay = retry.baseDelay * 2^((i \div 2) - 1)
              /\ fnTrace[i \div 2].st = "throw"
    \* every failed attempt but the final one is followed by its wait
    /\ \A k \in 1..Len(fnTrace) :
         (fnTrace[k].st = "throw" /\ k < retry.maxRetries) =>
            Len(retry.log) >= 2 * k
    /\ Len(retry.log) <= (IF retry.maxRetries > 0
                          THEN 2 * retry.maxRetries - 1 ELSE 0)
    \* after maxRetries failures the error of the last attempt is thrown
    /\ (retry.maxRetries > 0 /\ RefFailures = retry.maxRetries) =>
         /\ retry.pc = "done"
         /\ retry.result.st = "throw"
         /\ retry.result.val = fnTrace[retry.maxRetries].val
    /\ (retry.pc = "done" /\ retry.result.st = "throw"
            /\ retry.maxRetries > 0) =>
         RefFailures = retry.maxRetries

\* three attempts have failed, the last with another error than the first
C29_Witness ==
    /\ retry.pc = "done"
    /\ retry.maxRetries = 3
    /\ retry.baseDelay = 1000
    /\ RefFailures = 3
    /\ fnTrace[1].val.message = "first kind"
    /\ fnTrace[3].val.message = "second kind"
    /\ retry.result.st = "throw"
    /\ retry.result.val.message = "second kind"
    /\ Len(retry.log) = 5
    /\ retry.log[4].delay = 2000

RECURSIVE RefConcat(_)
RefConcat(chunks) ==
    IF chunks = <<>> THEN <<>> ELSE Head(chunks) \o RefConcat(Tail(chunks))

\* what the claim says of the chunks returned
RefChunksPartition ==
    /\ RefConcat(chunking.chunks) = chunking.array
    /\ \A k \in 1..Len(chunking.chunks) :
         /\ chunking.chunks[k] # <<>>
         /\ Len(chunking.chunks[k]) <= chunking.chunkSize

(***************************************************************************)
(* C30: chunkArray(array, chunkSize) terminates for every array and every  *)
(* integer chunkSize, and returns chunks whose concatenation in order      *)
(* equals the array, each chunk non-empty and of length at most chunkSize. *)
(***************************************************************************)
C30_ChunkArrayTerminates ==
    /\ (chunking.pc = "loop") ~> (chunking.pc = "done")
    /\ [](chunking.pc = "done" => RefChunksPartition)

\* for a chunk size of at least 1 the loop ends within array.length turns,
\* i grows at every turn, and the chunks are as the claim says
C30_ChunkArrayPositiveSize ==
    chunking.chunkSize >= 1 =>
        /\ chunking.iterations <= Len(chunking.array)
        /\ chunking.i >= chunking.iterations
        /\ chunking.pc = "done" => RefChunksPartition

\* for a chunk size of 0 or less i never passes 0, so the loop over an
\* array that is not empty is never left
C30_NoProgressBelowOne ==
    (chunking.pc # "idle" /\ chunking.chunkSize <= 0) =>
        /\ chunking.i <= 0
        /\ chunking.pc = "done" => chunking.array = <<>>

====
